---- MODULE Spec2Model ----
(***************************************************************************)
(* State-machine model of the prior-art pipeline of keyword_generator.py   *)
(* (and of the copy of the model gateway in patent_generator.py).          *)
(*                                                                         *)
(* Strings are sequences of tokens.  A token is a TLA+ string that stands  *)
(* for one character or for one indivisible word of the Python string      *)
(* ("patent", "# Error", ...).  Python's None and a non-string value are   *)
(* the one-token sequences NoneVal and NonStrVal, whose tokens belong to   *)
(* no alphabet of the model.                                               *)
(***************************************************************************)
EXTENDS Integers, Sequences, FiniteSets, TLC

VARIABLES
    \* normalize_patent_id, one call, and a second call on its result
    raw_id, normalized, normalized_again, n_pc,
    \* call_gemini_with_retry, one call: the credential, which copy of the
    \* function runs, the position, the loop variable, the value returned,
    \* and (history) the model invocations, the sleeps and the outcomes
    GEMINI_API_KEY, g_module, g_pc, g_attempt, g_result, g_origin,
    g_calls, g_sleeps, g_hist,
    \* call_scrapingdog_api, one call: the credential, the position, the loop
    \* variable, the value returned, whether an exception left the function,
    \* and (history) the HTTP requests, the sleeps and the outcomes
    SCRAPINGDOG_API_KEY, s_pc, s_attempt, s_result, s_raised,
    s_requests, s_sleeps, s_hist,
    \* generate_keyword_report, one run: the position, the extractor's text,
    \* the parsed concepts, the value returned
    p_pc, description_text, keyword_report_md, all_concepts_data, report,
    \* scrape_individual_terms_concurrently: the term list, each future's
    \* state and outcome, the collector's locals
    all_individual_terms, fut, fut_attempt, fut_result,
    all_patents, seen_patent_ids, total_api_calls,
    \* back in generate_keyword_report: the values scraping returned, the
    \* record map (an insertion-ordered dict: a sequence of key/value pairs),
    \* the ranker's text, the ranking section and the short-list
    scraped_patents_list, api_calls_made, scraped_patents_dict,
    initial_analysis_md, prior_art_analysis_md, top_patents_for_deep_dive,
    \* the deep dive: one analysis text per short-listed record, and the
    \* deep-dive section of the report
    deep_dive_results, deep_dive_reports_md,
    \* history: where each gateway text came from ("model", "gateway") and
    \* what the caller's check took it for ("content", "failure"); the
    \* records of the result lists the collector went through, and for each
    \* normalized identifier among them the record it met first
    kw_origin, kw_taken, ia_origin, ia_taken, retrieved, first_seen,
    \* history: the terms for which a worker called the search gateway, in
    \* the order of the calls, and the records of the result lists that
    \* the workers' calls returned, and the terms whose call returned an
    \* error dict, returned no result or raised
    searched, found, unproductive,
    \* history: the calls of call_gemini_for_prior_art, the identifiers of the
    \* records whose document was requested from the document store, and for
    \* each call of call_gemini_for_deep_dive the record's identifier and
    \* where the returned text came from
    rank_calls, fetched, dived,
    \* call_gemini_for_prior_art, one call: the position, the record list it
    \* is given, the value returned
    pa_pc, pa_patents, pa_result,
    \* kw_app.py: the job store (a dict), each background worker's position,
    \* its local variable report and (history) whether generate_keyword_report
    \* raised in it, and the last response the web interface gave
    job_results, worker, w_report, w_raised, response,
    \* parse_all_concept_data, one call: the position, the text it is given,
    \* the value returned, and whether an exception left the function
    c_pc, c_md, c_concepts, c_raised

normVars == <<raw_id, normalized, normalized_again, n_pc>>
geminiVars == <<GEMINI_API_KEY, g_module, g_pc, g_attempt, g_result, g_origin,
                g_calls, g_sleeps, g_hist>>
searchVars == <<SCRAPINGDOG_API_KEY, s_pc, s_attempt, s_result, s_raised,
                s_requests, s_sleeps, s_hist>>
scrapeVars == <<all_individual_terms, fut, fut_attempt, fut_result, all_patents,
                seen_patent_ids, total_api_calls, retrieved, first_seen, searched, found,
                unproductive>>
reportVars == <<p_pc, description_text, keyword_report_md, all_concepts_data, report,
                scraped_patents_list, api_calls_made, scraped_patents_dict,
                initial_analysis_md, prior_art_analysis_md, top_patents_for_deep_dive,
                deep_dive_results, deep_dive_reports_md,
                kw_origin, kw_taken, ia_origin, ia_taken, rank_calls, fetched, dived>>
rankerVars == <<pa_pc, pa_patents, pa_result>>
jobVars == <<job_results, worker, w_report, w_raised, response>>
pipeVars == <<scrapeVars, reportVars, rankerVars, jobVars>>
parseVars == <<c_pc, c_md, c_concepts, c_raised>>
vars == <<normVars, parseVars, geminiVars, searchVars, pipeVars>>

NoneVal == <<"<None>">>
NonStrVal == <<"<int>">>

IsStr(v) == v # NoneVal /\ v # NonStrVal

\* Python truthiness of a value that is None, a non-string or a string.
Truthy(v) == v # NoneVal /\ v # <<>>

----------------------------------------------------------------------------
(* Bounds *)

\* longest raw identifier handed to normalize_patent_id
MaxIdLen == 5
\* longest text (in tokens) the model capability generates in one gateway call
MaxTextLen == 2
\* longest result list the search API returns for one term
MaxResults == 2
\* most numbered entries in a ranking text
MaxRankLines == 6

----------------------------------------------------------------------------
(* String helpers: str.strip, str.split, str.replace *)

WS == {" "}
Brackets == {"[", "]"}

RECURSIVE LStrip(_, _)
LStrip(s, cs) ==
    IF s # <<>> /\ Head(s) \in cs THEN LStrip(Tail(s), cs) ELSE s

RECURSIVE RStrip(_, _)
RStrip(s, cs) ==
    IF s # <<>> /\ s[Len(s)] \in cs THEN RStrip(SubSeq(s, 1, Len(s) - 1), cs) ELSE s

\* s.strip() when cs = WS, s.strip('[]') when cs = Brackets
StripChars(s, cs) == RStrip(LStrip(s, cs), cs)

\* index of the first "/" of s at or after position i, Len(s)+1 when there is none
RECURSIVE FindSlash(_, _)
FindSlash(s, i) ==
    IF i > Len(s) THEN Len(s) + 1
    ELSE IF s[i] = "/" THEN i ELSE FindSlash(s, i + 1)

\* s.split('/')[0]
Part0(s) == SubSeq(s, 1, FindSlash(s, 1) - 1)

\* s.split('/')[1], for an s that holds a "/"
Part1(s) == SubSeq(s, FindSlash(s, 1) + 1, FindSlash(s, FindSlash(s, 1) + 1) - 1)

HasSlash(s) == FindSlash(s, 1) <= Len(s)

----------------------------------------------------------------------------
(* normalize_patent_id *)

\* normalize_patent_id without the .strip('[]') of the cleaning step
normalize_patent_id_NoBracketStrip(raw) ==
    IF ~Truthy(raw) \/ ~IsStr(raw) THEN NoneVal
    ELSE LET cleaned == StripChars(raw, WS)
         IN  IF HasSlash(cleaned) /\ Part0(cleaned) = <<"patent">>
             THEN Part1(cleaned)
             ELSE cleaned

normalize_patent_id(raw) ==
    IF ~Truthy(raw) \/ ~IsStr(raw) THEN NoneVal
    ELSE LET cleaned == StripChars(StripChars(raw, WS), Brackets)
         IN  IF HasSlash(cleaned) /\ Part0(cleaned) = <<"patent">>
             THEN Part1(cleaned)
             ELSE cleaned

\* alphabet of raw identifiers: the word 'patent', the separator, blank,
\* the two brackets, one publication-number token and one language token
IdChars == {"patent", "/", " ", "[", "]", "US1234A1", "en"}

RECURSIVE StringsUpTo(_, _)
StringsUpTo(cs, n) ==
    IF n = 0 THEN {<<>>}
    ELSE LET shorter == StringsUpTo(cs, n - 1)
         IN  shorter \cup {<<c>> \o s : c \in cs, s \in {t \in shorter : Len(t) = n - 1}}

RawIds == StringsUpTo(IdChars, MaxIdLen) \cup {NoneVal, NonStrVal}

NormIdle ==
    raw_id = NoneVal /\ normalized = NoneVal /\ normalized_again = NoneVal /\ n_pc = "idle"

InitNorm ==
    raw_id \in RawIds /\ normalized = NoneVal /\ normalized_again = NoneVal /\ n_pc = "call"

Normalize ==
    /\ n_pc = "call"
    /\ normalized' = normalize_patent_id(raw_id)
    /\ n_pc' = "done"
    /\ UNCHANGED <<raw_id, normalized_again>>
    /\ UNCHANGED <<parseVars, geminiVars, searchVars, pipeVars>>

\* normalize_patent_id applied to the value it returned
Renormalize ==
    /\ n_pc = "done"
    /\ normalized_again' = normalize_patent_id(normalized)
    /\ n_pc' = "again"
    /\ UNCHANGED <<raw_id, normalized>>
    /\ UNCHANGED <<parseVars, geminiVars, searchVars, pipeVars>>

NextNorm == Normalize \/ Renormalize

----------------------------------------------------------------------------
(* Model gateway: call_gemini_with_retry *)

MAX_RETRIES == 3
RETRY_DELAY == 5

\* the sentinel every failure string of the gateway begins with
ErrorMark == "# Error"
\* a phrase patent_generator.py takes for a refusal
RefusalPhrase == "cannot fulfill"
\* tokens of a generated text: the sentinel words, blank, other content, a refusal
TextChars == {ErrorMark, " ", "x", RefusalPhrase}
Texts == StringsUpTo(TextChars, MaxTextLen)

\* what one call of model.generate_content does: it raises, or it returns a
\* response from which the text text is extracted (empty: blocked, truncated)
GeminiOutcomes == {[kind |-> "raise", text |-> <<>>]} \cup {[kind |-> "resp", text |-> t] : t \in Texts}

GErrNoKey == <<ErrorMark, "GOOGLE_API_KEY not configured">>
GErrEmpty == <<ErrorMark, "Received empty or problematic response from API">>
GErrRaised == <<ErrorMark, "An unexpected error occurred">>
GenerationIssue == "# Generation Issue: Model indicated difficulty: "

Contains(s, c) == \E i \in 1..Len(s) : s[i] = c

\* the loop body returning the failure at the first empty response
GeminiLoopBody_EmptyNotRetried(module, attempt, out) ==
    IF out.kind = "resp"
    THEN IF out.text # <<>>
         THEN IF module = "patent_generator" /\ Contains(out.text, RefusalPhrase)
              THEN [ret |-> TRUE, value |-> <<GenerationIssue>> \o out.text, origin |-> "model", sleep |-> 0]
              ELSE [ret |-> TRUE, value |-> StripChars(out.text, WS), origin |-> "model", sleep |-> 0]
         ELSE [ret |-> TRUE, value |-> GErrEmpty, origin |-> "gateway", sleep |-> 0]
    ELSE IF attempt < MAX_RETRIES - 1
         THEN [ret |-> FALSE, value |-> NoneVal, origin |-> "none", sleep |-> RETRY_DELAY * (attempt + 1)]
         ELSE [ret |-> TRUE, value |-> GErrRaised, origin |-> "gateway", sleep |-> 0]

\* the loop body with the last attempt taken one attempt too soon
GeminiLoopBody_GivesUpEarly(module, attempt, out) ==
    IF out.kind = "resp"
    THEN IF out.text # <<>>
         THEN IF module = "patent_generator" /\ Contains(out.text, RefusalPhrase)
              THEN [ret |-> TRUE, value |-> <<GenerationIssue>> \o out.text, origin |-> "model", sleep |-> 0]
              ELSE [ret |-> TRUE, value |-> StripChars(out.text, WS), origin |-> "model", sleep |-> 0]
         ELSE IF attempt >= MAX_RETRIES - 2
              THEN [ret |-> TRUE, value |-> GErrEmpty, origin |-> "gateway", sleep |-> 0]
              ELSE [ret |-> FALSE, value |-> NoneVal, origin |-> "none", sleep |-> RETRY_DELAY * (attempt + 1)]
    ELSE IF attempt < MAX_RETRIES - 2
         THEN [ret |-> FALSE, value |-> NoneVal, origin |-> "none", sleep |-> RETRY_DELAY * (attempt + 1)]
         ELSE [ret |-> TRUE, value |-> GErrRaised, origin |-> "gateway", sleep |-> 0]

\* Body of the retry loop for attempt number attempt (0-based) whose model
\* call ended as out: whether the function returns, what, and the sleep.
GeminiLoopBody(module, attempt, out) ==
    IF out.kind = "resp"
    THEN IF out.text # <<>>
         THEN IF module = "patent_generator" /\ Contains(out.text, RefusalPhrase)
              THEN [ret |-> TRUE, value |-> <<GenerationIssue>> \o out.text, origin |-> "model", sleep |-> 0]
              ELSE [ret |-> TRUE, value |-> StripChars(out.text, WS), origin |-> "model", sleep |-> 0]
         ELSE IF attempt = MAX_RETRIES - 1
              THEN [ret |-> TRUE, value |-> GErrEmpty, origin |-> "gateway", sleep |-> 0]
              ELSE [ret |-> FALSE, value |-> NoneVal, origin |-> "none", sleep |-> RETRY_DELAY * (attempt + 1)]
    ELSE IF attempt < MAX_RETRIES - 1
         THEN [ret |-> FALSE, value |-> NoneVal, origin |-> "none", sleep |-> RETRY_DELAY * (attempt + 1)]
         ELSE [ret |-> TRUE, value |-> GErrRaised, origin |-> "gateway", sleep |-> 0]

GeminiNotCalled ==
    /\ g_module = "keyword_generator" /\ g_pc = "idle"
    /\ g_attempt = 0 /\ g_result = NoneVal /\ g_origin = "none"
    /\ g_calls = 0 /\ g_sleeps = <<>> /\ g_hist = <<>>

GeminiIdle == GEMINI_API_KEY = TRUE /\ GeminiNotCalled

InitGemini ==
    /\ GEMINI_API_KEY \in BOOLEAN
    /\ g_module \in {"keyword_generator", "patent_generator"}
    /\ g_pc = "call"
    /\ g_attempt = 0 /\ g_result = NoneVal /\ g_origin = "none"
    /\ g_calls = 0 /\ g_sleeps = <<>> /\ g_hist = <<>>

\* entry of the function: the credential check
GeminiEnter ==
    /\ g_pc = "call"
    /\ IF ~GEMINI_API_KEY
       THEN g_pc' = "done" /\ g_result' = GErrNoKey /\ g_origin' = "gateway"
       ELSE g_pc' = "loop" /\ UNCHANGED <<g_result, g_origin>>
    /\ UNCHANGED <<GEMINI_API_KEY, g_module, g_attempt, g_calls, g_sleeps, g_hist>>
    /\ UNCHANGED <<normVars, parseVars, searchVars, pipeVars>>

\* one iteration of for attempt in range(MAX_RETRIES)
GeminiAttempt ==
    /\ g_pc = "loop"
    /\ g_attempt < MAX_RETRIES
    /\ \E out \in GeminiOutcomes :
         LET r == GeminiLoopBody(g_module, g_attempt, out)
         IN  /\ g_calls' = g_calls + 1
             /\ g_hist' = Append(g_hist, out)
             /\ IF r.ret
                THEN /\ g_pc' = "done"
                     /\ g_result' = r.value
                     /\ g_origin' = r.origin
                     /\ UNCHANGED <<g_attempt, g_sleeps>>
                ELSE /\ g_attempt' = g_attempt + 1
                     /\ g_sleeps' = Append(g_sleeps, r.sleep)
                     /\ UNCHANGED <<g_pc, g_result, g_origin>>
    /\ UNCHANGED <<GEMINI_API_KEY, g_module>>
    /\ UNCHANGED <<normVars, parseVars, searchVars, pipeVars>>

NextGemini == GeminiEnter \/ GeminiAttempt

----------------------------------------------------------------------------
(* Patent records and search results *)

\* the 'pdf' field of a record of the search API: the suffix of its document
\* in the document store, absent in copy "b"
PdfOf(title) == IF title = "b" THEN NoneVal ELSE <<title, ".pdf">>

\* A record of the search API: its raw identifier, a field that tells two
\* copies of a document apart, the suffix of its document, and the url the
\* collector adds (empty before).
Rec(id, title) == [patent_id |-> id, title |-> title, pdf |-> PdfOf(title), url |-> <<>>]

\* the same document under a prefixed and a bare raw identifier, a second
\* copy of the bare one as another query returns it, and another document
ApiRecords ==
    { Rec(<<"patent", "/", "US1234A1", "/", "en">>, "a"),
      Rec(<<"US1234A1">>, "b"),
      Rec(<<"US1234A1">>, "c"),
      Rec(<<"US5678B2">>, "d") }

\* What a caller of call_scrapingdog_api sees: the decoded JSON body, or the
\* error dict built by the gateway.  error = "" and status_code = 0 stand
\* for an absent key; organic_results = << >> for an absent, empty or
\* non-list value, which the callers treat alike.
Result(isdict, error, status, results) ==
    [isdict |-> isdict, error |-> error, status_code |-> status, organic_results |-> results]

NoResult == Result(FALSE, "<none>", 0, <<>>)

ErrorDict(error, status) == Result(TRUE, error, status, <<>>)

\* bodies a 200 response can carry in a single gateway call
SomeBodies ==
    { Result(TRUE, "", 0, <<r>>) : r \in ApiRecords } \cup
    { Result(TRUE, "", 0, <<>>), Result(TRUE, "quota exceeded", 0, <<>>), Result(FALSE, "", 0, <<>>) }

----------------------------------------------------------------------------
(* Search gateway: call_scrapingdog_api *)

\* statuses for which response.raise_for_status() raises
ErrorStatuses == {400, 404, 429, 500, 503}

\* what one requests.get(...) plus response.json() does
SearchOutcomes(bodies) ==
    { [kind |-> "ok", status |-> 200, body |-> b] : b \in bodies } \cup
    { [kind |-> k, status |-> 0, body |-> NoResult] : k \in {"timeout", "conn"} } \cup
    { [kind |-> "badjson", status |-> 200, body |-> NoResult] } \cup
    { [kind |-> "http", status |-> c, body |-> NoResult] : c \in ErrorStatuses }

SErrNoKey == "API key not configured."
SErrJson == "ScrapingDog Error: Failed to decode JSON."
SErrTimeout == "ScrapingDog Error: Request timed out"
SErrRequest == "ScrapingDog Error: Request exception"

\* the loop body returning the error of a timeout without a retry
SearchLoopBody_TimeoutNotRetried(attempt, out) ==
    LET return(v) == [ret |-> TRUE, value |-> v, raised |-> FALSE, sleep |-> 0]
        retry == [ret |-> FALSE, value |-> NoResult, raised |-> FALSE,
                  sleep |-> RETRY_DELAY * (attempt + 1)]
    IN  CASE out.kind = "ok" -> return(out.body)
          [] out.kind = "badjson" ->
                IF attempt < MAX_RETRIES - 1 THEN retry
                ELSE return(ErrorDict(SErrJson, out.status))
          [] out.kind = "timeout" -> return(ErrorDict(SErrTimeout, 0))
          [] out.kind = "http" ->
                IF out.status = 400 THEN return(ErrorDict(SErrRequest, 400))
                ELSE IF 500 <= out.status /\ out.status < 600 /\ attempt < MAX_RETRIES - 1
                     THEN retry
                     ELSE return(ErrorDict(SErrRequest, out.status))
          [] out.kind = "conn" ->
                [ret |-> TRUE, value |-> NoResult, raised |-> TRUE, sleep |-> 0]

\* the loop body retrying every HTTP error status other than 400
SearchLoopBody_RetriesClientError(attempt, out) ==
    LET return(v) == [ret |-> TRUE, value |-> v, raised |-> FALSE, sleep |-> 0]
        retry == [ret |-> FALSE, value |-> NoResult, raised |-> FALSE,
                  sleep |-> RETRY_DELAY * (attempt + 1)]
    IN  CASE out.kind = "ok" -> return(out.body)
          [] out.kind = "badjson" ->
                IF attempt < MAX_RETRIES - 1 THEN retry
                ELSE return(ErrorDict(SErrJson, out.status))
          [] out.kind = "timeout" ->
                IF attempt < MAX_RETRIES - 1 THEN retry
                ELSE return(ErrorDict(SErrTimeout, 0))
          [] out.kind = "http" ->
                IF out.status = 400 THEN return(ErrorDict(SErrRequest, 400))
                ELSE IF attempt < MAX_RETRIES - 1
                     THEN retry
                     ELSE return(ErrorDict(SErrRequest, out.status))
          [] out.kind = "conn" ->
                [ret |-> TRUE, value |-> NoResult, raised |-> TRUE, sleep |-> 0]

\* the loop body with the base delay before every retry
SearchLoopBody_ConstantDelay(attempt, out) ==
    LET return(v) == [ret |-> TRUE, value |-> v, raised |-> FALSE, sleep |-> 0]
        retry == [ret |-> FALSE, value |-> NoResult, raised |-> FALSE,
                  sleep |-> RETRY_DELAY]
    IN  CASE out.kind = "ok" -> return(out.body)
          [] out.kind = "badjson" ->
                IF attempt < MAX_RETRIES - 1 THEN retry
                ELSE return(ErrorDict(SErrJson, out.status))
          [] out.kind = "timeout" ->
                IF attempt < MAX_RETRIES - 1 THEN retry
                ELSE return(ErrorDict(SErrTimeout, 0))
          [] out.kind = "http" ->
                IF out.status = 400 THEN return(ErrorDict(SErrRequest, 400))
                ELSE IF 500 <= out.status /\ out.status < 600 /\ attempt < MAX_RETRIES - 1
                     THEN retry
                     ELSE return(ErrorDict(SErrRequest, out.status))
          \* e.response is None: e.response.status_code raises AttributeError
          \* inside the except clause, and nothing catches it
          [] out.kind = "conn" ->
                [ret |-> TRUE, value |-> NoResult, raised |-> TRUE, sleep |-> 0]

\* Body of the retry loop for attempt number attempt (0-based) whose
\* request ended as out: whether the function returns, what it returns,
\* whether an exception leaves it instead, and the sleep before the next try.
SearchLoopBody(attempt, out) ==
    LET return(v) == [ret |-> TRUE, value |-> v, raised |-> FALSE, sleep |-> 0]
        retry == [ret |-> FALSE, value |-> NoResult, raised |-> FALSE,
                  sleep |-> RETRY_DELAY * (attempt + 1)]
    IN  CASE out.kind = "ok" -> return(out.body)
          [] out.kind = "badjson" ->
                IF attempt < MAX_RETRIES - 1 THEN retry
                ELSE return(ErrorDict(SErrJson, out.status))
          [] out.kind = "timeout" ->
                IF attempt < MAX_RETRIES - 1 THEN retry
                ELSE return(ErrorDict(SErrTimeout, 0))
          [] out.kind = "http" ->
                IF out.status = 400 THEN return(ErrorDict(SErrRequest, 400))
                ELSE IF 500 <= out.status /\ out.status < 600 /\ attempt < MAX_RETRIES - 1
                     THEN retry
                     ELSE return(ErrorDict(SErrRequest, out.status))
          \* e.response is None: e.response.status_code raises AttributeError
          \* inside the except clause, and nothing catches it
          [] out.kind = "conn" ->
                [ret |-> TRUE, value |-> NoResult, raised |-> TRUE, sleep |-> 0]

SearchNotCalled ==
    /\ s_pc = "idle" /\ s_attempt = 0
    /\ s_result = NoResult /\ s_raised = FALSE
    /\ s_requests = 0 /\ s_sleeps = <<>> /\ s_hist = <<>>

SearchIdle == SCRAPINGDOG_API_KEY = TRUE /\ SearchNotCalled

InitSearch ==
    /\ SCRAPINGDOG_API_KEY \in BOOLEAN /\ s_pc = "call" /\ s_attempt = 0
    /\ s_result = NoResult /\ s_raised = FALSE
    /\ s_requests = 0 /\ s_sleeps = <<>> /\ s_hist = <<>>

\* entry of the function without the credential check
SearchEnter_NoKeyCheck ==
    /\ s_pc = "call"
    /\ s_pc' = "loop" /\ UNCHANGED s_result
    /\ UNCHANGED <<SCRAPINGDOG_API_KEY, s_attempt, s_raised, s_requests, s_sleeps, s_hist>>
    /\ UNCHANGED <<normVars, parseVars, geminiVars, pipeVars>>

\* entry of the function: the credential check
SearchEnter ==
    /\ s_pc = "call"
    /\ IF ~SCRAPINGDOG_API_KEY
       THEN s_pc' = "done" /\ s_result' = ErrorDict(SErrNoKey, 0)
       ELSE s_pc' = "loop" /\ UNCHANGED s_result
    /\ UNCHANGED <<SCRAPINGDOG_API_KEY, s_attempt, s_raised, s_requests, s_sleeps, s_hist>>
    /\ UNCHANGED <<normVars, parseVars, geminiVars, pipeVars>>

\* one iteration of for attempt in range(MAX_RETRIES)
SearchAttempt ==
    /\ s_pc = "loop"
    /\ s_attempt < MAX_RETRIES
    /\ \E out \in SearchOutcomes(SomeBodies) :
         LET r == SearchLoopBody(s_attempt, out)
         IN  /\ s_requests' = s_requests + 1
             /\ s_hist' = Append(s_hist, out)
             /\ IF r.ret
                THEN /\ s_pc' = "done"
                     /\ s_result' = r.value
                     /\ s_raised' = r.raised
                     /\ UNCHANGED <<s_attempt, s_sleeps>>
                ELSE /\ s_attempt' = s_attempt + 1
                     /\ s_sleeps' = Append(s_sleeps, r.sleep)
                     /\ UNCHANGED <<s_pc, s_result, s_raised>>
    /\ UNCHANGED SCRAPINGDOG_API_KEY
    /\ UNCHANGED <<normVars, parseVars, geminiVars, pipeVars>>

NextSearch == SearchEnter \/ SearchAttempt

----------------------------------------------------------------------------
(* A whole gateway call, as the pipeline's stages see it *)

GeminiOutcomesOver(texts) ==
    {[kind |-> "raise", text |-> <<>>]} \cup {[kind |-> "resp", text |-> t] : t \in texts}

\* What the retry loop of call_gemini_with_retry can return from attempt
\* number `attempt` on, when each model call ends as one of `outcomes`.
RECURSIVE GeminiReturns(_, _, _)
GeminiReturns(module, attempt, outcomes) ==
    IF attempt >= MAX_RETRIES
    THEN {[value |-> <<ErrorMark, "failed after retries.">>, origin |-> "gateway"]}
    ELSE UNION { LET r == GeminiLoopBody(module, attempt, out)
                 IN  IF r.ret THEN {[value |-> r.value, origin |-> r.origin]}
                     ELSE GeminiReturns(module, attempt + 1, outcomes)
                 : out \in outcomes }

\* What call_scrapingdog_api (credential present) can return or raise from
\* attempt number `attempt` on, when each request ends as one of `outcomes`.
RECURSIVE SearchReturns(_, _)
SearchReturns(attempt, outcomes) ==
    IF attempt >= MAX_RETRIES
    THEN {[raised |-> FALSE, value |-> ErrorDict("Scraping failed after retries, unknown state.", 0)]}
    ELSE UNION { LET r == SearchLoopBody(attempt, out)
                 IN  IF r.ret THEN {[raised |-> r.raised, value |-> r.value]}
                     ELSE SearchReturns(attempt + 1, outcomes)
                 : out \in outcomes }

----------------------------------------------------------------------------
(* Python dict as an insertion-ordered sequence of key/value pairs *)

DictHas(d, k) == \E i \in 1..Len(d) : d[i].k = k

DictGet(d, k) == d[CHOOSE i \in 1..Len(d) : d[i].k = k].v

\* d[k] = v
DictSet(d, k, v) ==
    IF DictHas(d, k)
    THEN [i \in 1..Len(d) |-> IF d[i].k = k THEN [k |-> k, v |-> v] ELSE d[i]]
    ELSE Append(d, [k |-> k, v |-> v])

DictKeys(d) == {d[i].k : i \in 1..Len(d)}

----------------------------------------------------------------------------
(* Extractor output and parse_all_concept_data, at the grain of lines *)

SectionMark == "### Cross-Lingual Search Concepts"
LangSpecificMark == "### Language-Specific or Nuanced Search Terms"

\* lines that match the concept-header pattern, with the description captured
ConceptHeaders == {"**Concept 1: heating**", "**Concept 2: sensing**"}
ConceptDescription(line) ==
    IF line = "**Concept 1: heating**" THEN "heating" ELSE "sensing"

\* lines that match the language/term pattern. The first three hold one
\* backtick span with the terms comma-separated inside it; the last, written
\* here with ' for the backtick, holds one span per term with commas between
\* the spans, as the keyword prompt asks for.
LangLines ==
    {"* English: heated mug, pressure sensor", "* German: pressure sensor",
     "* English: switch, coil, lid, cup, heater, sensor",
     "* French: 'lid', 'cup'", "* Spanish: ' , '"}
LangOf(line) ==
    CASE line = "* German: pressure sensor" -> "German"
      [] line = "* French: 'lid', 'cup'" -> "French"
      [] line = "* Spanish: ' , '" -> "Spanish"
      [] OTHER -> "English"

\* the backtick spans of a line in order, each as its comma-separated
\* pieces, a piece as it stands between the commas
BacktickSpans(line) ==
    CASE line = "* English: heated mug, pressure sensor" ->
            << << <<"heated mug">>, <<" ", "pressure sensor">> >> >>
      [] line = "* German: pressure sensor" -> << << <<"pressure sensor">> >> >>
      [] line = "* English: switch, coil, lid, cup, heater, sensor" ->
            << << <<"switch">>, <<" ", "coil">>, <<" ", "lid">>, <<" ", "cup">>,
                  <<" ", "heater">>, <<" ", "sensor">> >> >>
      [] line = "* French: 'lid', 'cup'" -> << << <<"lid">> >>, << <<"cup">> >> >>
      [] line = "* Spanish: ' , '" -> << << <<" ">>, <<" ">> >> >>

\* [term.strip() for term in terms_str.split(',') if term.strip()]
RECURSIVE SplitTerms(_)
SplitTerms(pieces) ==
    IF pieces = <<>> THEN <<>>
    ELSE LET term == StripChars(Head(pieces), WS)
         IN  (IF term # <<>> THEN <<term[1]>> ELSE <<>>) \o SplitTerms(Tail(pieces))

\* the terms of a line: the pattern captures what stands between the first
\* backtick after the colon and the next backtick
TermsOf(line) == SplitTerms(BacktickSpans(line)[1])

RECURSIVE IndexOf(_, _, _)
IndexOf(s, tok, i) ==
    IF i > Len(s) THEN 0 ELSE IF s[i] = tok THEN i ELSE IndexOf(s, tok, i + 1)

\* language_terms with the term list stored also when it is empty
RECURSIVE BlockTerms_KeepsEmptyLists(_, _)
BlockTerms_KeepsEmptyLists(block, acc) ==
    IF block = <<>> THEN acc
    ELSE LET l == Head(block)
         IN  BlockTerms_KeepsEmptyLists(Tail(block),
                        IF l \in LangLines
                        THEN DictSet(acc, LangOf(l), TermsOf(l)) ELSE acc)

\* language_terms of one concept block: a later line of a language replaces
\* an earlier one
RECURSIVE BlockTerms(_, _)
BlockTerms(block, acc) ==
    IF block = <<>> THEN acc
    ELSE LET l == Head(block)
         IN  BlockTerms(Tail(block),
                        IF l \in LangLines /\ TermsOf(l) # <<>>
                        THEN DictSet(acc, LangOf(l), TermsOf(l)) ELSE acc)

\* the block of the concept header at position i: up to the next header
RECURSIVE BlockEnd(_, _)
BlockEnd(sec, i) ==
    IF i > Len(sec) THEN Len(sec)
    ELSE IF sec[i] \in ConceptHeaders THEN i - 1 ELSE BlockEnd(sec, i + 1)

RECURSIVE ParseBlocks(_, _, _)
ParseBlocks(sec, i, concepts) ==
    IF i > Len(sec) THEN concepts
    ELSE IF sec[i] \in ConceptHeaders
         THEN LET e == BlockEnd(sec, i + 1)
                  language_terms == BlockTerms(SubSeq(sec, i + 1, e), <<>>)
              IN  ParseBlocks(sec, e + 1,
                              IF language_terms # <<>>
                              THEN DictSet(concepts, ConceptDescription(sec[i]), language_terms)
                              ELSE concepts)
         ELSE ParseBlocks(sec, i + 1, concepts)

\* the try block of parse_all_concept_data: a value that is no string has no
\* find method, and the call raises
ParseTry(md) ==
    IF ~IsStr(md) THEN [raised |-> TRUE, value |-> NoneVal]
    ELSE LET start == IndexOf(md, SectionMark, 1)
         IN  IF start = 0 THEN [raised |-> FALSE, value |-> <<>>]
             ELSE LET next == IndexOf(md, LangSpecificMark, start)
                      end == IF next = 0 THEN Len(md) ELSE next - 1
                  IN  [raised |-> FALSE, value |-> ParseBlocks(SubSeq(md, start, end), 1, <<>>)]

\* the function without its except clause
ParseOutcome_NoExcept(md) == ParseTry(md)

\* the try statement: except Exception returns the empty dict
ParseOutcome(md) ==
    LET t == ParseTry(md)
    IN  IF t.raised THEN [raised |-> FALSE, value |-> <<>>] ELSE t

parse_all_concept_data(md) == ParseOutcome(md).value

\* The output format the keyword prompt prescribes: the heading of its
\* section II, which does not hold the string the parser searches for, its
\* concept header, which the concept pattern does not match ('Group' stands
\* where the pattern wants the number), and its bullet line with one
\* backtick span per term.
PromptSectionMark == "### II. Cross-Lingual Search Concept Groups"
PromptConceptHeader == "**Concept Group 1: heating**"
PromptLangLine == "* French: 'lid', 'cup'"
PromptReply == <<PromptSectionMark, PromptConceptHeader, PromptLangLine>>

\* longest text, in lines, handed to one call of parse_all_concept_data
MaxParseLines == 4

\* the lines of a text handed to the parser
ParseLines ==
    {SectionMark, LangSpecificMark, PromptSectionMark, PromptConceptHeader, "x"}
        \cup ConceptHeaders \cup LangLines

ParseInputs == StringsUpTo(ParseLines, MaxParseLines) \cup {NoneVal, NonStrVal}

ParseIdle == c_pc = "idle" /\ c_md = <<>> /\ c_concepts = <<>> /\ c_raised = FALSE

InitParse == c_pc = "call" /\ c_md \in ParseInputs /\ c_concepts = <<>> /\ c_raised = FALSE

\* one call of parse_all_concept_data
ParseCall ==
    /\ c_pc = "call"
    /\ LET o == ParseOutcome(c_md)
       IN  c_concepts' = o.value /\ c_raised' = o.raised
    /\ c_pc' = "done"
    /\ UNCHANGED c_md
    /\ UNCHANGED <<normVars, geminiVars, searchVars, pipeVars>>

NextParse == ParseCall

\* the two status values kw_app.py keeps in the job store next to the reports
Processing == <<"processing">>
NotFound == <<"not_found">>

\* replies of the model to the keyword prompt: prose, a text that begins
\* with the failure sentinel, texts with concept blocks, a blank text, and
\* the words of the two status values
KeywordTexts ==
    { <<"x">>,
      <<ErrorMark, "x">>,
      <<SectionMark, "**Concept 1: heating**", "* English: heated mug, pressure sensor">>,
      <<"x", SectionMark, "**Concept 1: heating**", "* English: heated mug, pressure sensor",
        "**Concept 2: sensing**", "* German: pressure sensor", LangSpecificMark, "x">>,
      <<SectionMark, "**Concept 2: sensing**", "* French: 'lid', 'cup'">>,
      <<" ">>, Processing, NotFound }

----------------------------------------------------------------------------
(* scrape_individual_terms_concurrently *)

MAX_WORKERS == 5

\* every term of every language of every concept, duplicates removed
TermSet(concepts) ==
    UNION { UNION { {concepts[i].v[j].v[n] : n \in 1..Len(concepts[i].v[j].v)}
                    : j \in 1..Len(concepts[i].v) }
            : i \in 1..Len(concepts) }

\* sorted(): the order of the term strings
TermOrder ==
    <<"coil", "cup", "heated mug", "heater", "lid", "pressure sensor", "sensor", "switch">>
TermRank(t) == CHOOSE n \in 1..Len(TermOrder) : TermOrder[n] = t

RECURSIVE SortedTerms(_)
SortedTerms(S) ==
    IF S = {} THEN <<>>
    ELSE LET m == CHOOSE t \in S : \A u \in S : TermRank(t) <= TermRank(u)
         IN  <<m>> \o SortedTerms(S \ {m})

\* patent_id.replace("patent/", "")
RECURSIVE RemovePrefixWord(_)
RemovePrefixWord(s) ==
    IF Len(s) < 2 THEN s
    ELSE IF s[1] = "patent" /\ s[2] = "/" THEN RemovePrefixWord(SubSeq(s, 3, Len(s)))
         ELSE <<s[1]>> \o RemovePrefixWord(Tail(s))

UrlBase == "https://patents.google.com/patent/"

\* whether the collector keeps a record of a result list: its identifier
\* is truthy and was not seen before
IsNewPatent(patent_id, seen) == Truthy(patent_id) /\ patent_id \notin seen

\* The loop over one result list.  acc holds all_patents and seen_patent_ids.
\* A truthy identifier that is no string makes patent_id.replace raise, which
\* ends the loop: the except clause around it only prints.
RECURSIVE ProcessResults(_, _)
ProcessResults(results, acc) ==
    IF results = <<>> THEN acc
    ELSE LET patent == Head(results)
             patent_id == patent.patent_id
         IN  IF IsNewPatent(patent_id, acc.seen)
             THEN IF ~IsStr(patent_id) THEN acc
                  ELSE ProcessResults(Tail(results),
                         [all |-> Append(acc.all,
                                    [patent EXCEPT !.url = <<UrlBase>> \o RemovePrefixWord(patent_id)]),
                          seen |-> acc.seen \cup {patent_id}])
             ELSE ProcessResults(Tail(results), acc)

\* result lists of the search API in a pipeline run: up to MaxResults
\* different records
RECURSIVE InjectiveSeqs(_, _)
InjectiveSeqs(S, n) ==
    IF n = 0 THEN {<<>>}
    ELSE LET shorter == InjectiveSeqs(S, n - 1)
         IN  shorter \cup
             UNION { {Append(t, x) : x \in S \ {t[i] : i \in 1..Len(t)}}
                     : t \in {u \in shorter : Len(u) = n - 1} }

ResultBodies ==
    { Result(TRUE, "", 0, rs) : rs \in InjectiveSeqs(ApiRecords, MaxResults) } \cup
    { Result(TRUE, "quota exceeded", 0, <<>>) }

\* what the search API does with the request of a term: the terms of the
\* six-term reply find nothing, or the request times out
RichTerms == {"heated mug", "pressure sensor"}
OutcomesFor(term) ==
    IF term \in RichTerms THEN SearchOutcomes(ResultBodies)
    ELSE { [kind |-> "ok", status |-> 200, body |-> Result(TRUE, "", 0, <<>>)],
           [kind |-> "timeout", status |-> 0, body |-> NoResult] }

Range(q) == {q[i] : i \in 1..Len(q)}

\* history: the first record met for each normalized identifier
RECURSIVE NoteFirstSeen(_, _)
NoteFirstSeen(results, seen) ==
    IF results = <<>> THEN seen
    ELSE LET key == normalize_patent_id(Head(results).patent_id)
         IN  NoteFirstSeen(Tail(results),
                           IF Truthy(key) /\ ~DictHas(seen, key)
                           THEN Append(seen, [k |-> key, v |-> Head(results)])
                           ELSE seen)

ScrapeLocalsInit ==
    /\ all_individual_terms = <<>> /\ fut = <<>> /\ fut_attempt = <<>> /\ fut_result = <<>>
    /\ all_patents = <<>> /\ seen_patent_ids = {} /\ total_api_calls = 0

Running == {i \in 1..Len(fut) : fut[i] = "running"}

\* the tasks a pool thread is busy with: scrape_single_term has been entered
\* and has not returned
InFlight == {i \in 1..Len(fut) : fut[i] \in {"running", "sleeping"}}

\* a pool that starts a thread for every task
WorkerStart_NoCeiling(i) ==
    /\ p_pc = "pool"
    /\ fut[i] = "queued"
    /\ \A j \in 1..(i - 1) : fut[j] # "queued"
    /\ fut' = [fut EXCEPT ![i] = "running"]
    /\ searched' = Append(searched, all_individual_terms[i])
    /\ UNCHANGED <<all_individual_terms, fut_attempt, fut_result, all_patents, seen_patent_ids,
                   total_api_calls, retrieved, first_seen, found, unproductive>>
    /\ UNCHANGED <<normVars, parseVars, geminiVars, searchVars, rankerVars, jobVars, reportVars>>

\* a free pool thread takes the next queued task and calls the search gateway
WorkerStart(i) ==
    /\ p_pc = "pool"
    /\ fut[i] = "queued"
    /\ \A j \in 1..(i - 1) : fut[j] # "queued"
    /\ Cardinality(InFlight) < MAX_WORKERS
    /\ fut' = [fut EXCEPT ![i] = "running"]
    /\ searched' = Append(searched, all_individual_terms[i])
    /\ UNCHANGED <<all_individual_terms, fut_attempt, fut_result, all_patents, seen_patent_ids,
                   total_api_calls, retrieved, first_seen, found, unproductive>>
    /\ UNCHANGED <<normVars, parseVars, geminiVars, searchVars, rankerVars, jobVars, reportVars>>

\* a worker that appends the records of its result to the shared list
\* itself, before the collector reads the future
WorkerAttempt_InsertsItself(i) ==
    /\ p_pc = "pool"
    /\ fut[i] = "running"
    /\ \E out \in OutcomesFor(all_individual_terms[i]) :
          LET b == SearchLoopBody(fut_attempt[i], out)
          IN  IF b.ret
              THEN /\ fut' = [fut EXCEPT ![i] = "finished"]
                   /\ fut_result' = [fut_result EXCEPT ![i] = [raised |-> b.raised, value |-> b.value]]
                   /\ found' = IF ~b.raised /\ b.value.isdict /\ b.value.error = ""
                               THEN found \cup Range(b.value.organic_results)
                               ELSE found
                   /\ unproductive' =
                         IF b.raised \/ ~b.value.isdict \/ b.value.error # ""
                            \/ b.value.organic_results = <<>>
                         THEN unproductive \cup {all_individual_terms[i]}
                         ELSE unproductive
                   /\ fut_attempt' = [fut_attempt EXCEPT ![i] = 0]
                   /\ all_patents' = IF ~b.raised /\ b.value.isdict /\ b.value.error = ""
                                     THEN all_patents \o b.value.organic_results
                                     ELSE all_patents
              ELSE /\ fut' = [fut EXCEPT ![i] = "sleeping"]
                   /\ fut_attempt' = [fut_attempt EXCEPT ![i] = @ + 1]
                   /\ UNCHANGED <<fut_result, found, unproductive, all_patents>>
    /\ UNCHANGED <<all_individual_terms, seen_patent_ids,
                   total_api_calls, retrieved, first_seen, searched>>
    /\ UNCHANGED <<normVars, parseVars, geminiVars, searchVars, rankerVars, jobVars, reportVars>>

\* one request of the task's gateway call: the call returns or raises, which
\* completes the future and ends the life of the call's loop variable, or
\* the thread goes to sleep before the next request
WorkerAttempt(i) ==
    /\ p_pc = "pool"
    /\ fut[i] = "running"
    /\ \E out \in OutcomesFor(all_individual_terms[i]) :
          LET b == SearchLoopBody(fut_attempt[i], out)
          IN  IF b.ret
              THEN /\ fut' = [fut EXCEPT ![i] = "finished"]
                   /\ fut_result' = [fut_result EXCEPT ![i] = [raised |-> b.raised, value |-> b.value]]
                   /\ found' = IF ~b.raised /\ b.value.isdict /\ b.value.error = ""
                               THEN found \cup Range(b.value.organic_results)
                               ELSE found
                   /\ unproductive' =
                         IF b.raised \/ ~b.value.isdict \/ b.value.error # ""
                            \/ b.value.organic_results = <<>>
                         THEN unproductive \cup {all_individual_terms[i]}
                         ELSE unproductive
                   /\ fut_attempt' = [fut_attempt EXCEPT ![i] = 0]
              ELSE /\ fut' = [fut EXCEPT ![i] = "sleeping"]
                   /\ fut_attempt' = [fut_attempt EXCEPT ![i] = @ + 1]
                   /\ UNCHANGED <<fut_result, found, unproductive>>
    /\ UNCHANGED <<all_individual_terms, all_patents, seen_patent_ids,
                   total_api_calls, retrieved, first_seen, searched>>
    /\ UNCHANGED <<normVars, parseVars, geminiVars, searchVars, rankerVars, jobVars, reportVars>>

\* time.sleep returns: the thread goes on with the next request
WorkerWake(i) ==
    /\ p_pc = "pool"
    /\ fut[i] = "sleeping"
    /\ fut' = [fut EXCEPT ![i] = "running"]
    /\ UNCHANGED <<all_individual_terms, fut_attempt, fut_result, all_patents, seen_patent_ids,
                   total_api_calls, retrieved, first_seen, searched, found, unproductive>>
    /\ UNCHANGED <<normVars, parseVars, geminiVars, searchVars, rankerVars, jobVars, reportVars>>

\* the loop over as_completed without its try/except: a future that holds
\* an exception ends the loop, and the results not yet collected are lost
Collect_RaiseEndsLoop(i) ==
    /\ p_pc = "pool"
    /\ fut[i] = "finished"
    /\ fut' = IF fut_result[i].raised THEN [j \in 1..Len(fut) |-> "collected"]
               ELSE [fut EXCEPT ![i] = "collected"]
    /\ total_api_calls' = total_api_calls + 1
    /\ LET r == fut_result[i]
           usable == /\ ~r.raised
                     /\ ~(r.value.isdict /\ r.value.error # "")
                     /\ r.value.isdict /\ r.value.organic_results # <<>>
           acc == IF usable
                  THEN ProcessResults(r.value.organic_results,
                                      [all |-> all_patents, seen |-> seen_patent_ids])
                  ELSE [all |-> all_patents, seen |-> seen_patent_ids]
       IN  /\ all_patents' = acc.all
           /\ seen_patent_ids' = acc.seen
           /\ retrieved' = IF usable THEN retrieved \cup Range(r.value.organic_results)
                           ELSE retrieved
           /\ first_seen' = IF usable THEN NoteFirstSeen(r.value.organic_results, first_seen)
                            ELSE first_seen
    /\ fut_result' = [fut_result EXCEPT ![i] = [raised |-> FALSE, value |-> NoResult]]
    /\ UNCHANGED <<all_individual_terms, fut_attempt, searched, found, unproductive>>
    /\ UNCHANGED <<normVars, parseVars, geminiVars, searchVars, rankerVars, jobVars, reportVars>>

\* the loop over as_completed counting a call only when its result is used
Collect_CountsUsableOnly(i) ==
    /\ p_pc = "pool"
    /\ fut[i] = "finished"
    /\ fut' = [fut EXCEPT ![i] = "collected"]
    /\ total_api_calls' = IF fut_result[i].raised \/ fut_result[i].value.error # ""
                           THEN total_api_calls ELSE total_api_calls + 1
    /\ LET r == fut_result[i]
           usable == /\ ~r.raised
                     /\ ~(r.value.isdict /\ r.value.error # "")
                     /\ r.value.isdict /\ r.value.organic_results # <<>>
           acc == IF usable
                  THEN ProcessResults(r.value.organic_results,
                                      [all |-> all_patents, seen |-> seen_patent_ids])
                  ELSE [all |-> all_patents, seen |-> seen_patent_ids]
       IN  /\ all_patents' = acc.all
           /\ seen_patent_ids' = acc.seen
           /\ retrieved' = IF usable THEN retrieved \cup Range(r.value.organic_results)
                           ELSE retrieved
           /\ first_seen' = IF usable THEN NoteFirstSeen(r.value.organic_results, first_seen)
                            ELSE first_seen
    /\ fut_result' = [fut_result EXCEPT ![i] = [raised |-> FALSE, value |-> NoResult]]
    /\ UNCHANGED <<all_individual_terms, fut_attempt, searched, found, unproductive>>
    /\ UNCHANGED <<normVars, parseVars, geminiVars, searchVars, rankerVars, jobVars, reportVars>>

\* one iteration of the loop over as_completed(futures_map); the result of
\* the future is not read again
Collect(i) ==
    /\ p_pc = "pool"
    /\ fut[i] = "finished"
    /\ fut' = [fut EXCEPT ![i] = "collected"]
    /\ total_api_calls' = total_api_calls + 1
    /\ LET r == fut_result[i]
           usable == /\ ~r.raised
                     /\ ~(r.value.isdict /\ r.value.error # "")
                     /\ r.value.isdict /\ r.value.organic_results # <<>>
           acc == IF usable
                  THEN ProcessResults(r.value.organic_results,
                                      [all |-> all_patents, seen |-> seen_patent_ids])
                  ELSE [all |-> all_patents, seen |-> seen_patent_ids]
       IN  /\ all_patents' = acc.all
           /\ seen_patent_ids' = acc.seen
           /\ retrieved' = IF usable THEN retrieved \cup Range(r.value.organic_results)
                           ELSE retrieved
           /\ first_seen' = IF usable THEN NoteFirstSeen(r.value.organic_results, first_seen)
                            ELSE first_seen
    /\ fut_result' = [fut_result EXCEPT ![i] = [raised |-> FALSE, value |-> NoResult]]
    /\ UNCHANGED <<all_individual_terms, fut_attempt, searched, found, unproductive>>
    /\ UNCHANGED <<normVars, parseVars, geminiVars, searchVars, rankerVars, jobVars, reportVars>>

----------------------------------------------------------------------------
(* generate_keyword_report *)

StartsWithError(md) == md # <<>> /\ Head(md) = ErrorMark

MsgEmptyDescription == <<ErrorMark, "Invention description text is empty.">>
MsgAnalysisDefault == <<"Analysis could not be performed.">>
MsgNoTerms == <<"Could not parse any search terms from the keyword report.">>
MsgNoResults == <<"No patent results were found after scraping">>
MsgAnalysisFailed == "Initial analysis failed. Error: "
MsgUnknownError == <<"(Unknown Error)">>
MsgDeepDefault == <<"Deep dive analysis skipped due to errors in previous stages or lack of relevant patents found initially.">>
MsgNoPatents == <<"No patents found or provided from scraping for analysis.">>
DeepHeader == "## Detailed Prior Art Analysis (Based on Full PDFs of Top Patents)"
DeepTitle == "### Detailed Analysis for"
MsgNoPdf == "Skipped: No PDF link found in scraped data."
MsgFetchFailed == "Skipped: Failed to download or process PDF from Google Storage."
Newline == "\n"
Separator == "---"

\* the record map keyed by the raw identifier of each record
RECURSIVE BuildDict_RawKey(_, _)
BuildDict_RawKey(list, d) ==
    IF list = <<>> THEN d
    ELSE LET p_data == Head(list)
             normalized_key == p_data.patent_id
         IN  BuildDict_RawKey(Tail(list),
                       IF Truthy(normalized_key) THEN DictSet(d, normalized_key, p_data) ELSE d)

\* the record map built from the list scraping returned
RECURSIVE BuildDict(_, _)
BuildDict(list, d) ==
    IF list = <<>> THEN d
    ELSE LET p_data == Head(list)
             normalized_key == normalize_patent_id(p_data.patent_id)
         IN  BuildDict(Tail(list),
                       IF Truthy(normalized_key) THEN DictSet(d, normalized_key, p_data) ELSE d)

\* lines of the ranking text that match the numbered-entry pattern, with the
\* identifier the pattern captures
EntryLines ==
    {"**1. US1234A1 - title**", "**2. patent/US5678B2/en - title**", "**3. US0000X9 - title**"}
EntryId(line) ==
    CASE line = "**1. US1234A1 - title**" -> <<"US1234A1">>
      [] line = "**2. patent/US5678B2/en - title**" -> <<"patent", "/", "US5678B2", "/", "en">>
      [] line = "**3. US0000X9 - title**" -> <<"US0000X9">>

\* re.findall over the ranking text
RECURSIVE ParsedIdsRaw(_)
ParsedIdsRaw(md) ==
    IF md = <<>> THEN <<>>
    ELSE (IF Head(md) \in EntryLines THEN <<EntryId(Head(md))>> ELSE <<>>) \o ParsedIdsRaw(Tail(md))

RECURSIVE NormalizeAll(_)
NormalizeAll(ids) ==
    IF ids = <<>> THEN <<>>
    ELSE LET normalized_id == normalize_patent_id(Head(ids))
         IN  (IF Truthy(normalized_id) THEN <<normalized_id>> ELSE <<>>) \o NormalizeAll(Tail(ids))

\* the short-list without the membership test: an identifier the map does
\* not hold gets a record made of the identifier alone
RECURSIVE Shortlist_KeepsMissing(_, _)
Shortlist_KeepsMissing(pids, d) ==
    IF pids = <<>> THEN <<>>
    ELSE (IF DictHas(d, Head(pids)) THEN <<DictGet(d, Head(pids))>>
          ELSE <<[patent_id |-> Head(pids), title |-> "", pdf |-> NoneVal, url |-> <<>>]>>)
         \o Shortlist_KeepsMissing(Tail(pids), d)

\* the records of the parsed identifiers found in the record map
RECURSIVE Shortlist(_, _)
Shortlist(pids, d) ==
    IF pids = <<>> THEN <<>>
    ELSE (IF DictHas(d, Head(pids)) THEN <<DictGet(d, Head(pids))>> ELSE <<>>)
         \o Shortlist(Tail(pids), d)

\* replies of the model to the ranking prompt: up to MaxRankLines numbered
\* entries that name a retrieved document by its prefixed identifier, entries
\* between prose, an entry that names an identifier no search returned, the
\* same entry twice, and texts without entries
RankTexts ==
    { [n \in 1..len |-> "**2. patent/US5678B2/en - title**"] : len \in 1..MaxRankLines } \cup
    { <<"x">>, <<" ">>, <<ErrorMark, "x">>,
      <<"x", "**1. US1234A1 - title**", "x", "**2. patent/US5678B2/en - title**">>,
      <<"**3. US0000X9 - title**", "**1. US1234A1 - title**">>,
      <<"**3. US0000X9 - title**">>,
      <<"**1. US1234A1 - title**", "**2. patent/US5678B2/en - title**",
        "**2. patent/US5678B2/en - title**", "**2. patent/US5678B2/en - title**">>,
      <<"**1. US1234A1 - title**", "**1. US1234A1 - title**">> }

\* replies of the model to the deep-dive prompt
DeepTexts == {<<"x">>}

\* what the extractor's and the ranker's gateway calls can return when the
\* credential is configured
KeywordCallResults == GeminiReturns("keyword_generator", 0, GeminiOutcomesOver(KeywordTexts))
RankCallResults == GeminiReturns("keyword_generator", 0, GeminiOutcomesOver(RankTexts))
DeepCallResults == GeminiReturns("keyword_generator", 0, GeminiOutcomesOver(DeepTexts))

\* call_gemini_with_retry as a stage calls it
call_gemini_with_retry(results) ==
    IF ~GEMINI_API_KEY THEN {[value |-> GErrNoKey, origin |-> "gateway"]} ELSE results

\* call_gemini_for_prior_art: the values it can return for a record list
call_gemini_for_prior_art(patents) ==
    IF patents = <<>> THEN {[value |-> MsgNoPatents, origin |-> "ranker"]}
    ELSE call_gemini_with_retry(RankCallResults)

\* fetch_patent_pdf: how the request to the document store can end, and
\* what the function returns
FetchOutcomes == {"pdf", "empty_pdf", "not_pdf", "timeout", "http", "conn"}
PdfBytes == <<"%PDF">>
fetch_patent_pdf(pdf_suffix, outcome) ==
    IF ~Truthy(pdf_suffix) \/ ~IsStr(pdf_suffix) THEN NoneVal
    ELSE IF outcome = "pdf" THEN PdfBytes
    ELSE IF outcome = "empty_pdf" THEN <<>>
    ELSE NoneVal

\* call_gemini_for_deep_dive: the values it can return for a record
call_gemini_for_deep_dive(patent_data, pdf_bytes) ==
    IF ~Truthy(pdf_bytes)
    THEN {[value |-> <<DeepTitle>> \o patent_data.patent_id
                     \o <<"Could not fetch or process the PDF for detailed analysis.">>,
           origin |-> "deep_dive"]}
    ELSE call_gemini_with_retry(DeepCallResults)

\* "\n\n---\n\n".join(deep_dive_results)
RECURSIVE JoinResults(_)
JoinResults(results) ==
    IF results = <<>> THEN <<>>
    ELSE IF Len(results) = 1 THEN Head(results)
    ELSE Head(results) \o <<Separator>> \o JoinResults(Tail(results))

InitPipeline ==
    /\ GEMINI_API_KEY \in BOOLEAN /\ SCRAPINGDOG_API_KEY \in BOOLEAN
    /\ description_text \in {<<>>, <<"x">>}
    /\ p_pc = "start"
    /\ keyword_report_md = NoneVal /\ all_concepts_data = <<>> /\ report = NoneVal
    /\ ScrapeLocalsInit /\ retrieved = {} /\ first_seen = <<>>
    /\ searched = <<>> /\ found = {} /\ unproductive = {}
    /\ scraped_patents_list = <<>> /\ api_calls_made = 0 /\ scraped_patents_dict = <<>>
    /\ initial_analysis_md = NoneVal /\ prior_art_analysis_md = MsgAnalysisDefault
    /\ top_patents_for_deep_dive = <<>>
    /\ deep_dive_results = <<>> /\ deep_dive_reports_md = MsgDeepDefault
    /\ rank_calls = 0 /\ fetched = <<>> /\ dived = <<>>
    /\ kw_origin = "none" /\ kw_taken = "none" /\ ia_origin = "none" /\ ia_taken = "none"

PipelineIdle ==
    /\ description_text = <<>>
    /\ p_pc = "idle"
    /\ keyword_report_md = NoneVal /\ all_concepts_data = <<>> /\ report = NoneVal
    /\ ScrapeLocalsInit /\ retrieved = {} /\ first_seen = <<>>
    /\ searched = <<>> /\ found = {} /\ unproductive = {}
    /\ scraped_patents_list = <<>> /\ api_calls_made = 0 /\ scraped_patents_dict = <<>>
    /\ initial_analysis_md = NoneVal /\ prior_art_analysis_md = MsgAnalysisDefault
    /\ top_patents_for_deep_dive = <<>>
    /\ deep_dive_results = <<>> /\ deep_dive_reports_md = MsgDeepDefault
    /\ rank_calls = 0 /\ fetched = <<>> /\ dived = <<>>
    /\ kw_origin = "none" /\ kw_taken = "none" /\ ia_origin = "none" /\ ia_taken = "none"

\* Stage 1 without the return on a failed extractor call
Extract_GoesOnAfterFailure ==
    /\ p_pc = "start"
    /\ IF description_text = <<>>
       THEN /\ report' = MsgEmptyDescription
            /\ p_pc' = "done"
            /\ UNCHANGED <<keyword_report_md, all_concepts_data, prior_art_analysis_md,
                           kw_origin, kw_taken>>
       ELSE \E r \in call_gemini_with_retry(KeywordCallResults) :
              /\ keyword_report_md' = r.value
              /\ kw_origin' = r.origin
              /\ IF FALSE
                 THEN /\ kw_taken' = "failure"
                      /\ report' = r.value
                      /\ p_pc' = "done"
                      /\ UNCHANGED <<all_concepts_data, prior_art_analysis_md>>
                 ELSE /\ kw_taken' = "content"
                      /\ all_concepts_data' = parse_all_concept_data(r.value)
                      /\ IF all_concepts_data' # <<>>
                         THEN p_pc' = "scrape" /\ UNCHANGED prior_art_analysis_md
                         ELSE p_pc' = "deep_dive" /\ prior_art_analysis_md' = MsgNoTerms
                      /\ UNCHANGED report
    /\ UNCHANGED <<description_text, scraped_patents_list, api_calls_made, scraped_patents_dict,
                   initial_analysis_md, top_patents_for_deep_dive, ia_origin, ia_taken,
                   deep_dive_results, deep_dive_reports_md, rank_calls, fetched, dived>>
    /\ UNCHANGED <<normVars, parseVars, geminiVars, searchVars, rankerVars, jobVars, scrapeVars>>

\* Stage 1 without the notice of the branch for an empty concept set
Extract_KeepsDefaultNotice ==
    /\ p_pc = "start"
    /\ IF description_text = <<>>
       THEN /\ report' = MsgEmptyDescription
            /\ p_pc' = "done"
            /\ UNCHANGED <<keyword_report_md, all_concepts_data, prior_art_analysis_md,
                           kw_origin, kw_taken>>
       ELSE \E r \in call_gemini_with_retry(KeywordCallResults) :
              /\ keyword_report_md' = r.value
              /\ kw_origin' = r.origin
              /\ IF StartsWithError(r.value)
                 THEN /\ kw_taken' = "failure"
                      /\ report' = r.value
                      /\ p_pc' = "done"
                      /\ UNCHANGED <<all_concepts_data, prior_art_analysis_md>>
                 ELSE /\ kw_taken' = "content"
                      /\ all_concepts_data' = parse_all_concept_data(r.value)
                      /\ IF all_concepts_data' # <<>>
                         THEN p_pc' = "scrape" /\ UNCHANGED prior_art_analysis_md
                         ELSE p_pc' = "deep_dive" /\ UNCHANGED prior_art_analysis_md
                      /\ UNCHANGED report
    /\ UNCHANGED <<description_text, scraped_patents_list, api_calls_made, scraped_patents_dict,
                   initial_analysis_md, top_patents_for_deep_dive, ia_origin, ia_taken,
                   deep_dive_results, deep_dive_reports_md, rank_calls, fetched, dived>>
    /\ UNCHANGED <<normVars, parseVars, geminiVars, searchVars, rankerVars, jobVars, scrapeVars>>

\* Stage 1: the extractor's call, the check of its result, the parse
Extract ==
    /\ p_pc = "start"
    /\ IF description_text = <<>>
       THEN /\ report' = MsgEmptyDescription
            /\ p_pc' = "done"
            /\ UNCHANGED <<keyword_report_md, all_concepts_data, prior_art_analysis_md,
                           kw_origin, kw_taken>>
       ELSE \E r \in call_gemini_with_retry(KeywordCallResults) :
              /\ keyword_report_md' = r.value
              /\ kw_origin' = r.origin
              /\ IF StartsWithError(r.value)
                 THEN /\ kw_taken' = "failure"
                      /\ report' = r.value
                      /\ p_pc' = "done"
                      /\ UNCHANGED <<all_concepts_data, prior_art_analysis_md>>
                 ELSE /\ kw_taken' = "content"
                      /\ all_concepts_data' = parse_all_concept_data(r.value)
                      /\ IF all_concepts_data' # <<>>
                         THEN p_pc' = "scrape" /\ UNCHANGED prior_art_analysis_md
                         ELSE p_pc' = "deep_dive" /\ prior_art_analysis_md' = MsgNoTerms
                      /\ UNCHANGED report
    /\ UNCHANGED <<description_text, scraped_patents_list, api_calls_made, scraped_patents_dict,
                   initial_analysis_md, top_patents_for_deep_dive, ia_origin, ia_taken,
                   deep_dive_results, deep_dive_reports_md, rank_calls, fetched, dived>>
    /\ UNCHANGED <<normVars, parseVars, geminiVars, searchVars, rankerVars, jobVars, scrapeVars>>

\* all_individual_terms before set(): the term lists of every language of
\* every concept, one after the other
RECURSIVE FlatTerms(_, _, _)
FlatTerms(concepts, i, j) ==
    IF i > Len(concepts) THEN <<>>
    ELSE IF j > Len(concepts[i].v) THEN FlatTerms(concepts, i + 1, 1)
         ELSE concepts[i].v[j].v \o FlatTerms(concepts, i, j + 1)

\* the submission of one task per term occurrence: the flattened list
\* without set()
ScrapeSubmit_NoDedup ==
    /\ p_pc = "scrape"
    /\ LET terms == FlatTerms(all_concepts_data, 1, 1)
       IN  IF ~SCRAPINGDOG_API_KEY \/ terms = <<>>
           THEN /\ prior_art_analysis_md' = MsgNoResults
                /\ p_pc' = "deep_dive"
                /\ UNCHANGED scrapeVars
           ELSE /\ all_individual_terms' = terms
                /\ fut' = [i \in 1..Len(terms) |-> "queued"]
                /\ fut_attempt' = [i \in 1..Len(terms) |-> 0]
                /\ fut_result' = [i \in 1..Len(terms) |-> [raised |-> FALSE, value |-> NoResult]]
                /\ p_pc' = "pool"
                /\ UNCHANGED <<all_patents, seen_patent_ids, total_api_calls, retrieved,
                               first_seen, searched, found, unproductive,
                               prior_art_analysis_md>>
    /\ UNCHANGED <<description_text, keyword_report_md, all_concepts_data, report,
                   scraped_patents_list, api_calls_made, scraped_patents_dict,
                   initial_analysis_md, top_patents_for_deep_dive,
                   deep_dive_results, deep_dive_reports_md, rank_calls, fetched, dived,
                   kw_origin, kw_taken, ia_origin, ia_taken>>
    /\ UNCHANGED <<normVars, parseVars, geminiVars, searchVars, rankerVars, jobVars>>

\* scrape_individual_terms_concurrently up to the submission of the tasks;
\* without a credential or without terms it returns at once and
\* generate_keyword_report goes on with an empty list
ScrapeSubmit ==
    /\ p_pc = "scrape"
    /\ LET terms == SortedTerms(TermSet(all_concepts_data))
       IN  IF ~SCRAPINGDOG_API_KEY \/ terms = <<>>
           THEN /\ prior_art_analysis_md' = MsgNoResults
                /\ p_pc' = "deep_dive"
                /\ UNCHANGED scrapeVars
           ELSE /\ all_individual_terms' = terms
                /\ fut' = [i \in 1..Len(terms) |-> "queued"]
                /\ fut_attempt' = [i \in 1..Len(terms) |-> 0]
                /\ fut_result' = [i \in 1..Len(terms) |-> [raised |-> FALSE, value |-> NoResult]]
                /\ p_pc' = "pool"
                /\ UNCHANGED <<all_patents, seen_patent_ids, total_api_calls, retrieved,
                               first_seen, searched, found, unproductive,
                               prior_art_analysis_md>>
    /\ UNCHANGED <<description_text, keyword_report_md, all_concepts_data, report,
                   scraped_patents_list, api_calls_made, scraped_patents_dict,
                   initial_analysis_md, top_patents_for_deep_dive,
                   deep_dive_results, deep_dive_reports_md, rank_calls, fetched, dived,
                   kw_origin, kw_taken, ia_origin, ia_taken>>
    /\ UNCHANGED <<normVars, parseVars, geminiVars, searchVars, rankerVars, jobVars>>

\* the return of scraping without the test for an empty list
ScrapeReturn_RanksEmptyList ==
    /\ p_pc = "pool"
    /\ \A i \in 1..Len(fut) : fut[i] = "collected"
    /\ scraped_patents_list' = all_patents
    /\ api_calls_made' = total_api_calls
    /\ IF all_patents # <<>>
       THEN /\ scraped_patents_dict' = BuildDict(all_patents, <<>>)
            /\ p_pc' = "rank"
            /\ UNCHANGED prior_art_analysis_md
       ELSE /\ p_pc' = "rank"
            /\ UNCHANGED <<scraped_patents_dict, prior_art_analysis_md>>
    /\ all_individual_terms' = <<>> /\ fut' = <<>> /\ fut_attempt' = <<>> /\ fut_result' = <<>>
    /\ all_patents' = <<>> /\ seen_patent_ids' = {} /\ total_api_calls' = 0
    /\ UNCHANGED <<retrieved, first_seen, searched, found, unproductive>>
    /\ UNCHANGED <<description_text, keyword_report_md, all_concepts_data, report,
                   initial_analysis_md, top_patents_for_deep_dive,
                   deep_dive_results, deep_dive_reports_md, rank_calls, fetched, dived,
                   kw_origin, kw_taken, ia_origin, ia_taken>>
    /\ UNCHANGED <<normVars, parseVars, geminiVars, searchVars, rankerVars, jobVars>>

\* the return of scraping while tasks are still queued or running: the loop
\* over as_completed left after the first future
ScrapeReturn_DoesNotWait ==
    /\ p_pc = "pool"
    /\ \E i \in 1..Len(fut) : fut[i] = "collected"
    /\ scraped_patents_list' = all_patents
    /\ api_calls_made' = total_api_calls
    /\ IF all_patents # <<>>
       THEN /\ scraped_patents_dict' = BuildDict(all_patents, <<>>)
            /\ p_pc' = "rank"
            /\ UNCHANGED prior_art_analysis_md
       ELSE /\ prior_art_analysis_md' = MsgNoResults
            /\ p_pc' = "deep_dive"
            /\ UNCHANGED scraped_patents_dict
    /\ all_individual_terms' = <<>> /\ fut' = <<>> /\ fut_attempt' = <<>> /\ fut_result' = <<>>
    /\ all_patents' = <<>> /\ seen_patent_ids' = {} /\ total_api_calls' = 0
    /\ UNCHANGED <<retrieved, first_seen, searched, found, unproductive>>
    /\ UNCHANGED <<description_text, keyword_report_md, all_concepts_data, report,
                   initial_analysis_md, top_patents_for_deep_dive,
                   deep_dive_results, deep_dive_reports_md, rank_calls, fetched, dived,
                   kw_origin, kw_taken, ia_origin, ia_taken>>
    /\ UNCHANGED <<normVars, parseVars, geminiVars, searchVars, rankerVars, jobVars>>

\* the pool has drained: scraping returns, and generate_keyword_report
\* builds the record map from the returned list
ScrapeReturn ==
    /\ p_pc = "pool"
    /\ \A i \in 1..Len(fut) : fut[i] = "collected"
    /\ scraped_patents_list' = all_patents
    /\ api_calls_made' = total_api_calls
    /\ IF all_patents # <<>>
       THEN /\ scraped_patents_dict' = BuildDict(all_patents, <<>>)
            /\ p_pc' = "rank"
            /\ UNCHANGED prior_art_analysis_md
       ELSE /\ prior_art_analysis_md' = MsgNoResults
            /\ p_pc' = "deep_dive"
            /\ UNCHANGED scraped_patents_dict
    /\ all_individual_terms' = <<>> /\ fut' = <<>> /\ fut_attempt' = <<>> /\ fut_result' = <<>>
    /\ all_patents' = <<>> /\ seen_patent_ids' = {} /\ total_api_calls' = 0
    /\ UNCHANGED <<retrieved, first_seen, searched, found, unproductive>>
    /\ UNCHANGED <<description_text, keyword_report_md, all_concepts_data, report,
                   initial_analysis_md, top_patents_for_deep_dive,
                   deep_dive_results, deep_dive_reports_md, rank_calls, fetched, dived,
                   kw_origin, kw_taken, ia_origin, ia_taken>>
    /\ UNCHANGED <<normVars, parseVars, geminiVars, searchVars, rankerVars, jobVars>>

\* Stage 2, second half: the ranker's call on the returned list, the check
\* of its result, the parse of the numbered entries and the short-list
Rank ==
    /\ p_pc = "rank"
    /\ rank_calls' = rank_calls + 1
    /\ \E r \in call_gemini_for_prior_art(scraped_patents_list) :
         /\ initial_analysis_md' = r.value
         /\ ia_origin' = r.origin
         /\ IF r.value # <<>> /\ ~StartsWithError(r.value)
            THEN /\ ia_taken' = "content"
                 /\ prior_art_analysis_md' = r.value
                 /\ top_patents_for_deep_dive' =
                        Shortlist(NormalizeAll(ParsedIdsRaw(r.value)), scraped_patents_dict)
            ELSE /\ ia_taken' = "failure"
                 /\ prior_art_analysis_md' =
                        <<MsgAnalysisFailed>> \o (IF r.value # <<>> THEN r.value ELSE MsgUnknownError)
                 /\ UNCHANGED top_patents_for_deep_dive
    /\ p_pc' = "deep_dive"
    /\ UNCHANGED <<description_text, keyword_report_md, all_concepts_data, report,
                   scraped_patents_list, api_calls_made, scraped_patents_dict,
                   deep_dive_results, deep_dive_reports_md, fetched, dived,
                   kw_origin, kw_taken>>
    /\ UNCHANGED <<normVars, parseVars, geminiVars, searchVars, rankerVars, jobVars, scrapeVars>>

\* the iteration without the test of what the fetch returned
DeepDiveItem_NoBytesTest ==
    /\ p_pc = "deep_dive"
    /\ Len(deep_dive_results) < Len(top_patents_for_deep_dive)
    /\ LET patent_data == top_patents_for_deep_dive[Len(deep_dive_results) + 1]
           patent_id == patent_data.patent_id
           pdf_suffix == patent_data.pdf
       IN  IF ~Truthy(pdf_suffix)
           THEN /\ deep_dive_results' =
                      Append(deep_dive_results, <<DeepTitle>> \o patent_id \o <<MsgNoPdf>>)
                /\ UNCHANGED <<fetched, dived>>
           ELSE \E outcome \in FetchOutcomes :
                  LET pdf_bytes == fetch_patent_pdf(pdf_suffix, outcome)
                  IN  /\ fetched' = IF IsStr(pdf_suffix) THEN Append(fetched, patent_id) ELSE fetched
                      /\ \E r \in call_gemini_for_deep_dive(patent_data, pdf_bytes) :
                            /\ dived' = Append(dived, [id |-> patent_id, origin |-> r.origin])
                            /\ deep_dive_results' = Append(deep_dive_results, r.value)
    /\ UNCHANGED <<p_pc, description_text, keyword_report_md, all_concepts_data, report,
                   scraped_patents_list, api_calls_made, scraped_patents_dict,
                   initial_analysis_md, prior_art_analysis_md, top_patents_for_deep_dive,
                   deep_dive_reports_md, rank_calls, kw_origin, kw_taken, ia_origin, ia_taken>>
    /\ UNCHANGED <<normVars, parseVars, geminiVars, searchVars, rankerVars, jobVars, scrapeVars>>

\* the loop over the short-list taken from its end
DeepDiveItem_LastFirst ==
    /\ p_pc = "deep_dive"
    /\ Len(deep_dive_results) < Len(top_patents_for_deep_dive)
    /\ LET patent_data == top_patents_for_deep_dive[Len(top_patents_for_deep_dive)
                                                       - Len(deep_dive_results)]
           patent_id == patent_data.patent_id
           pdf_suffix == patent_data.pdf
       IN  IF ~Truthy(pdf_suffix)
           THEN /\ deep_dive_results' =
                      Append(deep_dive_results, <<DeepTitle>> \o patent_id \o <<MsgNoPdf>>)
                /\ UNCHANGED <<fetched, dived>>
           ELSE \E outcome \in FetchOutcomes :
                  LET pdf_bytes == fetch_patent_pdf(pdf_suffix, outcome)
                  IN  /\ fetched' = IF IsStr(pdf_suffix) THEN Append(fetched, patent_id) ELSE fetched
                      /\ IF Truthy(pdf_bytes)
                         THEN \E r \in call_gemini_for_deep_dive(patent_data, pdf_bytes) :
                                 /\ dived' = Append(dived, [id |-> patent_id, origin |-> r.origin])
                                 /\ deep_dive_results' = Append(deep_dive_results, r.value)
                         ELSE /\ deep_dive_results' =
                                    Append(deep_dive_results,
                                           <<DeepTitle>> \o patent_id \o <<MsgFetchFailed>>)
                              /\ UNCHANGED dived
    /\ UNCHANGED <<p_pc, description_text, keyword_report_md, all_concepts_data, report,
                   scraped_patents_list, api_calls_made, scraped_patents_dict,
                   initial_analysis_md, prior_art_analysis_md, top_patents_for_deep_dive,
                   deep_dive_reports_md, rank_calls, kw_origin, kw_taken, ia_origin, ia_taken>>
    /\ UNCHANGED <<normVars, parseVars, geminiVars, searchVars, rankerVars, jobVars, scrapeVars>>

\* Stage 3, one iteration of the loop over the short-list: the record
\* without a document suffix, the fetch, and the deep-dive call
DeepDiveItem ==
    /\ p_pc = "deep_dive"
    /\ Len(deep_dive_results) < Len(top_patents_for_deep_dive)
    /\ LET patent_data == top_patents_for_deep_dive[Len(deep_dive_results) + 1]
           patent_id == patent_data.patent_id
           pdf_suffix == patent_data.pdf
       IN  IF ~Truthy(pdf_suffix)
           THEN /\ deep_dive_results' =
                      Append(deep_dive_results, <<DeepTitle>> \o patent_id \o <<MsgNoPdf>>)
                /\ UNCHANGED <<fetched, dived>>
           ELSE \E outcome \in FetchOutcomes :
                  LET pdf_bytes == fetch_patent_pdf(pdf_suffix, outcome)
                  IN  /\ fetched' = IF IsStr(pdf_suffix) THEN Append(fetched, patent_id) ELSE fetched
                      /\ IF Truthy(pdf_bytes)
                         THEN \E r \in call_gemini_for_deep_dive(patent_data, pdf_bytes) :
                                 /\ dived' = Append(dived, [id |-> patent_id, origin |-> r.origin])
                                 /\ deep_dive_results' = Append(deep_dive_results, r.value)
                         ELSE /\ deep_dive_results' =
                                    Append(deep_dive_results,
                                           <<DeepTitle>> \o patent_id \o <<MsgFetchFailed>>)
                              /\ UNCHANGED dived
    /\ UNCHANGED <<p_pc, description_text, keyword_report_md, all_concepts_data, report,
                   scraped_patents_list, api_calls_made, scraped_patents_dict,
                   initial_analysis_md, prior_art_analysis_md, top_patents_for_deep_dive,
                   deep_dive_reports_md, rank_calls, kw_origin, kw_taken, ia_origin, ia_taken>>
    /\ UNCHANGED <<normVars, parseVars, geminiVars, searchVars, rankerVars, jobVars, scrapeVars>>

\* the assembly with the ranking section after the deep-dive section
Assemble_RankingLast ==
    /\ p_pc = "deep_dive"
    /\ Len(deep_dive_results) = Len(top_patents_for_deep_dive)
    /\ deep_dive_reports_md' =
          IF top_patents_for_deep_dive # <<>> /\ deep_dive_results # <<>>
          THEN <<DeepHeader>> \o JoinResults(deep_dive_results)
          ELSE deep_dive_reports_md
    /\ report' = keyword_report_md \o <<Newline>> \o deep_dive_reports_md'
                    \o <<Newline>> \o prior_art_analysis_md
    /\ p_pc' = "done"
    /\ UNCHANGED <<description_text, keyword_report_md, all_concepts_data,
                   scraped_patents_list, api_calls_made, scraped_patents_dict,
                   initial_analysis_md, prior_art_analysis_md, top_patents_for_deep_dive,
                   deep_dive_results, rank_calls, fetched, dived,
                   kw_origin, kw_taken, ia_origin, ia_taken>>
    /\ UNCHANGED <<normVars, parseVars, geminiVars, searchVars, rankerVars, jobVars, scrapeVars>>

\* the assembly returning the extractor's text alone
Assemble_KeywordReportOnly ==
    /\ p_pc = "deep_dive"
    /\ Len(deep_dive_results) = Len(top_patents_for_deep_dive)
    /\ deep_dive_reports_md' =
          IF top_patents_for_deep_dive # <<>> /\ deep_dive_results # <<>>
          THEN <<DeepHeader>> \o JoinResults(deep_dive_results)
          ELSE deep_dive_reports_md
    /\ report' = keyword_report_md
    /\ p_pc' = "done"
    /\ UNCHANGED <<description_text, keyword_report_md, all_concepts_data,
                   scraped_patents_list, api_calls_made, scraped_patents_dict,
                   initial_analysis_md, prior_art_analysis_md, top_patents_for_deep_dive,
                   deep_dive_results, rank_calls, fetched, dived,
                   kw_origin, kw_taken, ia_origin, ia_taken>>
    /\ UNCHANGED <<normVars, parseVars, geminiVars, searchVars, rankerVars, jobVars, scrapeVars>>

\* the end of stage 3 and stage 4: the deep-dive section and the report
Assemble ==
    /\ p_pc = "deep_dive"
    /\ Len(deep_dive_results) = Len(top_patents_for_deep_dive)
    /\ deep_dive_reports_md' =
          IF top_patents_for_deep_dive # <<>> /\ deep_dive_results # <<>>
          THEN <<DeepHeader>> \o JoinResults(deep_dive_results)
          ELSE deep_dive_reports_md
    /\ report' = keyword_report_md \o <<Newline>> \o prior_art_analysis_md
                    \o <<Newline>> \o deep_dive_reports_md'
    /\ p_pc' = "done"
    /\ UNCHANGED <<description_text, keyword_report_md, all_concepts_data,
                   scraped_patents_list, api_calls_made, scraped_patents_dict,
                   initial_analysis_md, prior_art_analysis_md, top_patents_for_deep_dive,
                   deep_dive_results, rank_calls, fetched, dived,
                   kw_origin, kw_taken, ia_origin, ia_taken>>
    /\ UNCHANGED <<normVars, parseVars, geminiVars, searchVars, rankerVars, jobVars, scrapeVars>>

NextPipeline ==
    \/ Extract
    \/ ScrapeSubmit
    \/ \E i \in 1..Len(fut) : WorkerStart(i)
    \/ \E i \in 1..Len(fut) : WorkerAttempt(i)
    \/ \E i \in 1..Len(fut) : WorkerWake(i)
    \/ \E i \in 1..Len(fut) : Collect(i)
    \/ ScrapeReturn
    \/ Rank
    \/ DeepDiveItem
    \/ Assemble

----------------------------------------------------------------------------
(* call_gemini_for_prior_art, one call, step by step *)

RankerIdle == pa_pc = "idle" /\ pa_patents = <<>> /\ pa_result = NoneVal

\* the record lists the function is called with: none, or up to MaxResults
\* records of the search results
RankerInputs == InjectiveSeqs(ApiRecords, MaxResults)

InitRanker ==
    /\ pa_pc = "call" /\ pa_patents \in RankerInputs /\ pa_result = NoneVal
    /\ GEMINI_API_KEY \in BOOLEAN
    /\ GeminiNotCalled

\* entry of the function without the test for an empty list
PriorArtEnter_NoShortCircuit ==
    /\ pa_pc = "call"
    /\ pa_pc' = "gateway" /\ g_pc' = "call"
    /\ UNCHANGED <<pa_patents, pa_result>>
    /\ UNCHANGED <<GEMINI_API_KEY, g_module, g_attempt, g_result, g_origin, g_calls, g_sleeps, g_hist>>
    /\ UNCHANGED <<normVars, parseVars, searchVars, scrapeVars, reportVars, jobVars>>

\* entry of the function: an empty list returns the notice at once, any
\* other list is formatted into the prompt and handed to the model gateway
PriorArtEnter ==
    /\ pa_pc = "call"
    /\ IF pa_patents = <<>>
       THEN pa_pc' = "done" /\ pa_result' = MsgNoPatents /\ UNCHANGED g_pc
       ELSE pa_pc' = "gateway" /\ g_pc' = "call" /\ UNCHANGED pa_result
    /\ UNCHANGED pa_patents
    /\ UNCHANGED <<GEMINI_API_KEY, g_module, g_attempt, g_result, g_origin, g_calls, g_sleeps, g_hist>>
    /\ UNCHANGED <<normVars, parseVars, searchVars, scrapeVars, reportVars, jobVars>>

\* return call_gemini_with_retry(prompt)
PriorArtReturn ==
    /\ pa_pc = "gateway" /\ g_pc = "done"
    /\ pa_pc' = "done" /\ pa_result' = g_result
    /\ UNCHANGED pa_patents
    /\ UNCHANGED <<normVars, parseVars, geminiVars, searchVars, scrapeVars, reportVars, jobVars>>

NextRanker == PriorArtEnter \/ GeminiEnter \/ GeminiAttempt \/ PriorArtReturn

----------------------------------------------------------------------------
(* kw_app.py: the job store, the background workers and the two routes *)

\* most jobs started in one behaviour
MaxJobs == 2

\* the values uuid.uuid4() can give
JobIds == 1..MaxJobs

\* a job id in a request for a result page that index never gave out; also
\* the id field of a response that names no job
UnknownId == 0

MsgNoReport == <<ErrorMark, "Processing completed, but no report was generated.">>
MsgWorkerError == <<ErrorMark, "An unexpected error occurred during report generation:", "traceback">>

\* what generate_keyword_report can return to the worker: a combined report,
\* the extractor's failure text, the text for an empty description
JobReports ==
    { <<"x", Newline>> \o MsgNoTerms \o <<Newline>> \o MsgDeepDefault, GErrRaised, MsgEmptyDescription }

JobsIdle ==
    /\ job_results = <<>>
    /\ worker = [j \in JobIds |-> "none"]
    /\ w_report = [j \in JobIds |-> <<>>]
    /\ w_raised = [j \in JobIds |-> FALSE]
    /\ response = [page |-> "none", job_id |-> UnknownId]

\* index, POST: an empty description is answered with the form again; else
\* a new job id is drawn, its entry is set to 'processing', the worker's
\* thread is started and the client is sent to the result page
IndexPost(job_id, invention_description) ==
    /\ IF ~Truthy(invention_description)
       THEN /\ response' = [page |-> "index", job_id |-> UnknownId]
            /\ UNCHANGED <<job_results, worker, w_report, w_raised>>
       ELSE /\ ~DictHas(job_results, job_id) /\ worker[job_id] = "none"
            /\ job_results' = DictSet(job_results, job_id, Processing)
            /\ worker' = [worker EXCEPT ![job_id] = "running"]
            /\ w_report' = [w_report EXCEPT ![job_id] = <<>>]
            /\ response' = [page |-> "redirect", job_id |-> job_id]
            /\ UNCHANGED w_raised
    /\ UNCHANGED <<normVars, parseVars, geminiVars, searchVars, scrapeVars, reportVars, rankerVars>>

\* the worker, with the store written when the report is computed and not
\* in the finally clause, and nothing written when the call raises
RunKeywordGeneration_StoresInTry(job_id) ==
    /\ worker[job_id] = "running"
    /\ \/ \E r \in JobReports :
            /\ w_report' = [w_report EXCEPT ![job_id] = IF ~Truthy(r) THEN MsgNoReport ELSE r]
            /\ job_results' = DictSet(job_results, job_id, w_report'[job_id])
            /\ worker' = [worker EXCEPT ![job_id] = "finished"]
            /\ UNCHANGED w_raised
       \/ /\ w_raised' = [w_raised EXCEPT ![job_id] = TRUE]
          /\ worker' = [worker EXCEPT ![job_id] = "finished"]
          /\ UNCHANGED <<w_report, job_results>>
    /\ UNCHANGED response
    /\ UNCHANGED <<normVars, parseVars, geminiVars, searchVars, scrapeVars, reportVars, rankerVars>>

\* run_keyword_generation_in_background, the try statement: the call returns
\* a report (an empty one is replaced), or raises and the handler makes the
\* error report
RunKeywordGeneration(job_id) ==
    /\ worker[job_id] = "running"
    /\ \/ \E r \in JobReports :
            /\ w_report' = [w_report EXCEPT ![job_id] = IF ~Truthy(r) THEN MsgNoReport ELSE r]
            /\ UNCHANGED w_raised
       \/ /\ w_report' = [w_report EXCEPT ![job_id] = MsgWorkerError]
          /\ w_raised' = [w_raised EXCEPT ![job_id] = TRUE]
    /\ worker' = [worker EXCEPT ![job_id] = "finally"]
    /\ UNCHANGED <<job_results, response>>
    /\ UNCHANGED <<normVars, parseVars, geminiVars, searchVars, scrapeVars, reportVars, rankerVars>>

\* the finally clause with the key lost: every entry of the store is set
StoreReport_WritesAll(job_id) ==
    /\ worker[job_id] = "finally"
    /\ job_results' = [i \in 1..Len(job_results) |->
                          [k |-> job_results[i].k, v |-> w_report[job_id]]]
    /\ worker' = [worker EXCEPT ![job_id] = "finished"]
    /\ UNCHANGED <<w_report, w_raised, response>>
    /\ UNCHANGED <<normVars, parseVars, geminiVars, searchVars, scrapeVars, reportVars, rankerVars>>

\* the finally clause: job_results[job_id] = report
StoreReport(job_id) ==
    /\ worker[job_id] = "finally"
    /\ job_results' = DictSet(job_results, job_id, w_report[job_id])
    /\ worker' = [worker EXCEPT ![job_id] = "finished"]
    /\ UNCHANGED <<w_report, w_raised, response>>
    /\ UNCHANGED <<normVars, parseVars, geminiVars, searchVars, scrapeVars, reportVars, rankerVars>>

\* job_results.get(job_id, 'not_found')
JobGet(job_id) == IF DictHas(job_results, job_id) THEN DictGet(job_results, job_id) ELSE NotFound

\* the result route with the entry deleted once it has been rendered
ResultGet_DeletesAfterRender(job_id) ==
    /\ LET report_markdown == JobGet(job_id)
           page == IF report_markdown = Processing THEN "processing"
                   ELSE IF report_markdown = NotFound THEN "not_found"
                   ELSE "result"
       IN  /\ response' = [page |-> page, job_id |-> job_id]
           /\ job_results' = IF page = "result"
                              THEN SelectSeq(job_results, LAMBDA e : e.k # job_id)
                              ELSE job_results
    /\ UNCHANGED <<worker, w_report, w_raised>>
    /\ UNCHANGED <<normVars, parseVars, geminiVars, searchVars, scrapeVars, reportVars, rankerVars>>

\* result, GET: the page for the entry of job_id
ResultGet(job_id) ==
    /\ LET report_markdown == JobGet(job_id)
       IN  response' = [page |-> IF report_markdown = Processing THEN "processing"
                                 ELSE IF report_markdown = NotFound THEN "not_found"
                                 ELSE "result",
                        job_id |-> job_id]
    /\ UNCHANGED <<job_results, worker, w_report, w_raised>>
    /\ UNCHANGED <<normVars, parseVars, geminiVars, searchVars, scrapeVars, reportVars, rankerVars>>

\* run_keyword_generation_in_background, the try statement, when the call
\* of generate_keyword_report is the run the pipeline's variables describe:
\* the run has ended and the call returns its report (an empty one is
\* replaced), or an exception leaves the call, here before its first stage,
\* and the handler makes the error report
WorkerReturn(job_id) ==
    /\ worker[job_id] = "running"
    /\ \/ /\ p_pc = "done"
          /\ w_report' = [w_report EXCEPT ![job_id] =
                              IF ~Truthy(report) THEN MsgNoReport ELSE report]
          /\ UNCHANGED <<w_raised, p_pc>>
       \/ /\ p_pc = "start"
          /\ p_pc' = "raised"
          /\ w_report' = [w_report EXCEPT ![job_id] = MsgWorkerError]
          /\ w_raised' = [w_raised EXCEPT ![job_id] = TRUE]
    /\ worker' = [worker EXCEPT ![job_id] = "finally"]
    /\ UNCHANGED <<job_results, response>>
    /\ UNCHANGED <<description_text, keyword_report_md, all_concepts_data, report,
                   scraped_patents_list, api_calls_made, scraped_patents_dict,
                   initial_analysis_md, prior_art_analysis_md, top_patents_for_deep_dive,
                   deep_dive_results, deep_dive_reports_md,
                   kw_origin, kw_taken, ia_origin, ia_taken, rank_calls, fetched, dived>>
    /\ UNCHANGED <<normVars, parseVars, geminiVars, searchVars, scrapeVars, rankerVars>>

NextJobs ==
    \/ \E job_id \in JobIds, invention_description \in {<<>>, <<"x">>} :
          IndexPost(job_id, invention_description)
    \/ \E job_id \in JobIds : RunKeywordGeneration(job_id)
    \/ \E job_id \in JobIds : StoreReport(job_id)
    \/ \E job_id \in JobIds \cup {UnknownId} : ResultGet(job_id)

----------------------------------------------------------------------------
(* Specifications *)

InitSpecNorm == InitNorm /\ ParseIdle /\ GeminiIdle /\ SearchIdle /\ PipelineIdle /\ RankerIdle /\ JobsIdle

SpecNorm == InitSpecNorm /\ [][NextNorm]_vars

InitSpecGemini == InitGemini /\ NormIdle /\ ParseIdle /\ SearchIdle /\ PipelineIdle /\ RankerIdle /\ JobsIdle

SpecGemini == InitSpecGemini /\ [][NextGemini]_vars

InitSpecSearch == InitSearch /\ NormIdle /\ ParseIdle /\ GeminiIdle /\ PipelineIdle /\ RankerIdle /\ JobsIdle

SpecSearch == InitSpecSearch /\ [][NextSearch]_vars

InitSpecPipeline == InitPipeline /\ NormIdle /\ ParseIdle /\ GeminiNotCalled /\ SearchNotCalled /\ RankerIdle /\ JobsIdle

SpecPipeline == InitSpecPipeline /\ [][NextPipeline]_vars

\* The retrieval stage alone, for a reply of the extractor with six terms:
\* one more term than the pool has threads.
SixTermReply ==
    <<SectionMark, "**Concept 1: heating**", "* English: switch, coil, lid, cup, heater, sensor">>

InitPool ==
    /\ GEMINI_API_KEY = TRUE /\ SCRAPINGDOG_API_KEY \in BOOLEAN
    /\ description_text = <<"x">>
    /\ p_pc = "scrape"
    /\ keyword_report_md = SixTermReply
    /\ all_concepts_data = parse_all_concept_data(SixTermReply)
    /\ report = NoneVal
    /\ ScrapeLocalsInit /\ retrieved = {} /\ first_seen = <<>>
    /\ searched = <<>> /\ found = {} /\ unproductive = {}
    /\ scraped_patents_list = <<>> /\ api_calls_made = 0 /\ scraped_patents_dict = <<>>
    /\ initial_analysis_md = NoneVal /\ prior_art_analysis_md = MsgAnalysisDefault
    /\ top_patents_for_deep_dive = <<>>
    /\ deep_dive_results = <<>> /\ deep_dive_reports_md = MsgDeepDefault
    /\ rank_calls = 0 /\ fetched = <<>> /\ dived = <<>>
    /\ kw_origin = "model" /\ kw_taken = "content" /\ ia_origin = "none" /\ ia_taken = "none"

NextPool ==
    \/ ScrapeSubmit
    \/ \E i \in 1..Len(fut) : WorkerStart(i)
    \/ \E i \in 1..Len(fut) : WorkerAttempt(i)
    \/ \E i \in 1..Len(fut) : WorkerWake(i)
    \/ \E i \in 1..Len(fut) : Collect(i)
    \/ ScrapeReturn

InitSpecPool == InitPool /\ NormIdle /\ ParseIdle /\ GeminiNotCalled /\ SearchNotCalled /\ RankerIdle /\ JobsIdle

SpecPool == InitSpecPool /\ [][NextPool]_vars

InitSpecRanker == InitRanker /\ NormIdle /\ ParseIdle /\ SearchIdle /\ PipelineIdle /\ JobsIdle

SpecRanker == InitSpecRanker /\ [][NextRanker]_vars

InitSpecJobs ==
    JobsIdle /\ NormIdle /\ ParseIdle /\ GeminiIdle /\ SearchIdle /\ PipelineIdle /\ RankerIdle

SpecJobs == InitSpecJobs /\ [][NextJobs]_vars

\* a started thread runs to its end: generate_keyword_report returns or
\* raises, and the finally clause is executed
SpecJobsLive ==
    /\ InitSpecJobs /\ [][NextJobs]_vars
    /\ \A job_id \in JobIds :
          WF_vars(RunKeywordGeneration(job_id)) /\ WF_vars(StoreReport(job_id))

\* A process in which at least one of the two credentials is not set: one
\* call of each gateway and one run of generate_keyword_report. Without the
\* model credential the run ends at the extractor, without the search
\* credential scraping returns before any task is submitted, so the steps of
\* the pool, the ranker and the deep dive cannot occur.
InitSpecCredentials ==
    /\ InitGemini /\ InitSearch /\ InitPipeline
    /\ ~(GEMINI_API_KEY /\ SCRAPINGDOG_API_KEY)
    /\ NormIdle /\ ParseIdle /\ RankerIdle /\ JobsIdle

NextCredentials ==
    \/ GeminiEnter
    \/ GeminiAttempt
    \/ SearchEnter
    \/ SearchAttempt
    \/ Extract
    \/ ScrapeSubmit
    \/ Assemble

SpecCredentials == InitSpecCredentials /\ [][NextCredentials]_vars

\* one call of each gateway in one process
InitSpecGateways ==
    InitGemini /\ InitSearch /\ NormIdle /\ ParseIdle /\ PipelineIdle /\ RankerIdle /\ JobsIdle

NextGateways == GeminiEnter \/ GeminiAttempt \/ SearchEnter \/ SearchAttempt

SpecGateways == InitSpecGateways /\ [][NextGateways]_vars

\* one call of parse_all_concept_data on a text of up to MaxParseLines lines
InitSpecParse ==
    InitParse /\ NormIdle /\ GeminiIdle /\ SearchIdle /\ PipelineIdle /\ RankerIdle /\ JobsIdle

SpecParse == InitSpecParse /\ [][NextParse]_vars

\* The collector alone, on two completed tasks whose result lists hold
\* records with an absent, an empty and a non-string identifier next to
\* well-formed ones.
MergeRecords ==
    { Rec(NoneVal, "e"), Rec(<<>>, "f"), Rec(NonStrVal, "g"),
      Rec(<<"US1234A1">>, "c"), Rec(<<"US5678B2">>, "d") }

TwoTermReply ==
    <<SectionMark, "**Concept 1: heating**", "* English: heated mug, pressure sensor">>

MergeResults ==
    { [raised |-> FALSE, value |-> Result(TRUE, "", 0, rs)]
        : rs \in InjectiveSeqs(MergeRecords, MaxResults) }

InitMerge ==
    /\ GEMINI_API_KEY = TRUE /\ SCRAPINGDOG_API_KEY = TRUE
    /\ description_text = <<"x">>
    /\ p_pc = "pool"
    /\ keyword_report_md = TwoTermReply
    /\ all_concepts_data = parse_all_concept_data(TwoTermReply)
    /\ report = NoneVal
    /\ all_individual_terms = SortedTerms(TermSet(all_concepts_data))
    /\ fut = [i \in 1..Len(all_individual_terms) |-> "finished"]
    /\ fut_attempt = [i \in 1..Len(all_individual_terms) |-> 0]
    /\ fut_result \in [1..Len(all_individual_terms) -> MergeResults]
    /\ all_patents = <<>> /\ seen_patent_ids = {} /\ total_api_calls = 0
    /\ retrieved = {} /\ first_seen = <<>>
    /\ searched = all_individual_terms
    /\ found = UNION {Range(fut_result[i].value.organic_results) : i \in 1..Len(fut_result)}
    /\ unproductive = {all_individual_terms[i] : i \in
                          {j \in 1..Len(fut_result) : fut_result[j].value.organic_results = <<>>}}
    /\ scraped_patents_list = <<>> /\ api_calls_made = 0 /\ scraped_patents_dict = <<>>
    /\ initial_analysis_md = NoneVal /\ prior_art_analysis_md = MsgAnalysisDefault
    /\ top_patents_for_deep_dive = <<>>
    /\ deep_dive_results = <<>> /\ deep_dive_reports_md = MsgDeepDefault
    /\ rank_calls = 0 /\ fetched = <<>> /\ dived = <<>>
    /\ kw_origin = "model" /\ kw_taken = "content" /\ ia_origin = "none" /\ ia_taken = "none"

NextMerge ==
    \/ \E i \in 1..Len(fut) : Collect(i)
    \/ ScrapeReturn

InitSpecMerge ==
    /\ InitMerge /\ NormIdle /\ ParseIdle /\ GeminiNotCalled /\ SearchNotCalled
    /\ RankerIdle /\ JobsIdle

SpecMerge == InitSpecMerge /\ [][NextMerge]_vars

\* One job of the web interface together with the run of its worker: index
\* has stored 'processing' for the job, started the thread and redirected
\* the client, whose description was not empty. The client asks for the
\* result page when the worker has stored its report.
FirstJob == 1

InitJobRun ==
    /\ job_results = <<[k |-> FirstJob, v |-> Processing]>>
    /\ worker = [j \in JobIds |-> IF j = FirstJob THEN "running" ELSE "none"]
    /\ w_report = [j \in JobIds |-> <<>>]
    /\ w_raised = [j \in JobIds |-> FALSE]
    /\ response = [page |-> "redirect", job_id |-> FirstJob]

NextJobRun ==
    \/ NextPipeline
    \/ WorkerReturn(FirstJob)
    \/ StoreReport(FirstJob)
    \/ (worker[FirstJob] = "finished" /\ ResultGet(FirstJob))

InitSpecJobRun ==
    /\ InitPipeline /\ description_text # <<>> /\ InitJobRun
    /\ NormIdle /\ ParseIdle /\ GeminiNotCalled /\ SearchNotCalled /\ RankerIdle

SpecJobRun == InitSpecJobRun /\ [][NextJobRun]_vars

----------------------------------------------------------------------------
(* Properties *)

IntMin(S) == CHOOSE x \in S : \A y \in S : x <= y
IntMax(S) == CHOOSE x \in S : \A y \in S : x >= y

\* s without its leading and trailing tokens of cs, stated by positions
TrimOf(s, cs) ==
    LET keep == {i \in 1..Len(s) : s[i] \notin cs}
    IN  IF keep = {} THEN <<>> ELSE SubSeq(s, IntMin(keep), IntMax(keep))

HasPatentPrefix(s) == Len(s) >= 2 /\ s[1] = "patent" /\ s[2] = "/"

\* s = 'patent/' + code, or 'patent/' + code + '/' + anything, code without '/'
IsCodeOf(code, s) ==
    /\ HasPatentPrefix(s)
    /\ \A i \in 1..Len(code) : code[i] # "/"
    /\ Len(s) >= 2 + Len(code)
    /\ code = SubSeq(s, 3, 2 + Len(code))
    /\ (Len(s) = 2 + Len(code) \/ s[3 + Len(code)] = "/")

\* the publication number of each record of ApiRecords
DocumentOf(rec) == IF rec.title \in {"a", "b", "c"} THEN <<"US1234A1">> ELSE <<"US5678B2">>

SameRecord(p, q) == p.patent_id = q.patent_id /\ p.title = q.title

MapBuilt == p_pc \in {"rank", "deep_dive"} /\ scraped_patents_list # <<>>

\* C1: once scraping has returned and the record map is built, the map has
\* no two entries with the same key, and its keys are exactly the normalized
\* identifiers of the records the collector went through, whatever the
\* number of terms that returned a document and the order of completion.
C1_OneEntryPerNormalizedId ==
    p_pc \in {"rank", "deep_dive"} =>
        /\ \A i, j \in 1..Len(scraped_patents_dict) :
              scraped_patents_dict[i].k = scraped_patents_dict[j].k => i = j
        /\ DictKeys(scraped_patents_dict) = {DocumentOf(rec) : rec \in retrieved}

\* C1 witness: two terms returned four records of two documents, one of
\* them under a prefixed and under a bare identifier, and the map has two entries.
C1_Witness ==
    /\ p_pc = "rank"
    /\ Cardinality(retrieved) = 4
    /\ Len(scraped_patents_dict) = 2

\* C2 (as claimed): the record the map holds under a normalized identifier
\* is the first record the collector met with that normalized identifier.
C2_FirstSeenWins ==
    MapBuilt =>
        \A i \in 1..Len(scraped_patents_dict) :
            /\ DictHas(first_seen, scraped_patents_dict[i].k)
            /\ SameRecord(scraped_patents_dict[i].v,
                          DictGet(first_seen, scraped_patents_dict[i].k))

\* C3 (as claimed): the list handed to the ranker never holds two records
\* whose raw identifiers normalize to the same identifier.
C3_RankerListDeduplicated ==
    p_pc = "rank" =>
        \A i, j \in 1..Len(scraped_patents_list) :
            DocumentOf(scraped_patents_list[i]) = DocumentOf(scraped_patents_list[j]) => i = j

GeminiFailed(out) == out.kind = "raise" \/ out.text = <<>>

\* what the gateway makes of a text the model returned
GeminiSuccessValue(module, text) ==
    IF module = "patent_generator" /\ Contains(text, RefusalPhrase)
    THEN <<GenerationIssue>> \o text
    ELSE TrimOf(text, WS)

Transient(out) ==
    \/ out.kind \in {"timeout", "badjson"}
    \/ out.kind = "http" /\ out.status >= 500

\* C5: under timeouts, 5xx responses and undecodable bodies the request is
\* issued at most 3 times; each such fault before the third attempt is
\* followed by another attempt; a decoded body is returned as the result,
\* on whichever attempt it arrives; when all 3 attempts fail, one error dict
\* is returned.
C5_TransientFaultsRetried ==
    /\ s_requests <= 3
    /\ s_requests = Len(s_hist)
    /\ (\A i \in 1..Len(s_hist) : Transient(s_hist[i]) \/ s_hist[i].kind = "ok") =>
          /\ s_pc = "loop" => s_attempt = Len(s_hist) /\ s_attempt < 3
          /\ (s_pc = "done" /\ SCRAPINGDOG_API_KEY) =>
                /\ ~s_raised
                /\ \A i \in 1..(Len(s_hist) - 1) : Transient(s_hist[i])
                /\ LET last == s_hist[Len(s_hist)]
                   IN  IF last.kind = "ok" THEN s_result = last.body
                       ELSE /\ s_requests = 3
                            /\ s_result.isdict /\ s_result.error # ""
                            /\ s_result.organic_results = <<>>

\* C5 witness: a timeout, a 503, then a body, which is returned.
C5_Witness ==
    /\ s_pc = "done" /\ s_requests = 3
    /\ s_hist[1].kind = "timeout" /\ s_hist[2].status = 503 /\ s_hist[3].kind = "ok"
    /\ s_result = s_hist[3].body /\ s_result.organic_results # <<>>

Is4xx(out) == out.kind = "http" /\ out.status >= 400 /\ out.status < 500

\* C6: the attempt that receives a 4xx response is the last one: the call
\* has returned, the error dict carries that status code, and no sleep
\* follows the response; a 4xx on the first attempt means one request.
C6_ClientErrorTerminal ==
    \A i \in 1..Len(s_hist) :
        Is4xx(s_hist[i]) =>
            /\ i = Len(s_hist) /\ s_requests = i
            /\ s_pc = "done" /\ ~s_raised
            /\ s_result.isdict /\ s_result.error # ""
            /\ s_result.status_code = s_hist[i].status
            /\ Len(s_sleeps) = i - 1

\* C6 witness: a timeout, then a 404: two requests, one sleep, status 404.
C6_Witness ==
    /\ s_pc = "done" /\ s_requests = 2
    /\ s_hist[1].kind = "timeout" /\ s_hist[2].kind = "http" /\ s_hist[2].status = 404
    /\ s_result.status_code = 404 /\ s_sleeps = <<5>>

\* C7 (as claimed): whatever the fault of the external capability, no
\* exception leaves a gateway: the model gateway returns a string, and the
\* search gateway returns a dict, tagged as an error when its last request
\* failed.
C7_GatewaysNeverRaise ==
    /\ g_pc = "done" => IsStr(g_result)
    /\ s_pc = "done" =>
          /\ ~s_raised
          /\ (s_hist # <<>> /\ s_hist[Len(s_hist)].kind # "ok") =>
                s_result.isdict /\ s_result.error # ""

\* C8 (as claimed): a text the model generated is never taken for a gateway
\* failure by the checks of generate_keyword_report, and a gateway failure
\* is never taken for generated content.
C8_FailureDistinguishable ==
    /\ kw_origin = "model" => kw_taken # "failure"
    /\ kw_origin = "gateway" => kw_taken # "content"
    /\ ia_origin = "model" => ia_taken # "failure"
    /\ ia_origin = "gateway" => ia_taken # "content"

\* C9 (as claimed): the short-list never has more than 5 entries.
C9_AtMostFive == Len(top_patents_for_deep_dive) <= 5

\* C10 (as claimed): 'patent/<CODE>' and 'patent/<CODE>/<lang>' give <CODE>,
\* and a string without the prefix gives the string with its leading and
\* trailing whitespace removed and nothing else changed.
C10_PrefixOrTrimmedRaw ==
    (n_pc \in {"done", "again"} /\ IsStr(raw_id)) =>
        IF HasPatentPrefix(raw_id)
        THEN IsCodeOf(normalized, raw_id)
        ELSE normalized = TrimOf(raw_id, WS)

\* C10 (amended): a non-empty string is first cleaned of leading and
\* trailing whitespace and then of leading and trailing square brackets; a
\* cleaned string 'patent/<CODE>' or 'patent/<CODE>/...' gives <CODE>, any
\* other gives the cleaned string; the empty string and a non-string give
\* None; 'patent/US1234A1/en' and 'US1234A1' both give 'US1234A1'.
C10_CleanedPrefixOrCleaned ==
    n_pc \in {"done", "again"} =>
        IF raw_id \in {NoneVal, NonStrVal, <<>>} THEN normalized = NoneVal
        ELSE LET cleaned == TrimOf(TrimOf(raw_id, WS), Brackets)
             IN  /\ HasPatentPrefix(cleaned) => IsCodeOf(normalized, cleaned)
                 /\ ~HasPatentPrefix(cleaned) => normalized = cleaned
                 /\ raw_id \in {<<"patent", "/", "US1234A1", "/", "en">>, <<"US1234A1">>}
                       => normalized = <<"US1234A1">>

\* C10 witness: the prefixed identifier of the example, normalized.
C10_Witness ==
    /\ n_pc = "done"
    /\ raw_id = <<"patent", "/", "US1234A1", "/", "en">>
    /\ normalized = <<"US1234A1">>

\* C11 (as claimed): whenever normalize_patent_id returns a string, applying
\* it to that string returns the same string.
C11_Idempotent ==
    (n_pc = "again" /\ IsStr(normalized)) => normalized_again = normalized

\* C12 (as claimed): the URL of every record the collector inserted is the
\* fixed base followed by the normalized identifier of the record, so
\* records with the same normalized identifier have the same URL.
C12_UrlFromNormalizedId ==
    /\ \A i \in 1..Len(all_patents) :
          all_patents[i].url = <<UrlBase>> \o DocumentOf(all_patents[i])
    /\ \A i, j \in 1..Len(scraped_patents_list) :
          DocumentOf(scraped_patents_list[i]) = DocumentOf(scraped_patents_list[j])
             => scraped_patents_list[i].url = scraped_patents_list[j].url

\* the terms on the language lines of the extractor's reply
ReplyTerms ==
    UNION { Range(TermsOf(keyword_report_md[n])) :
            n \in {m \in 1..Len(keyword_report_md) : keyword_report_md[m] \in LangLines} }

ScrapingReturned == p_pc \in {"rank", "deep_dive"} /\ kw_taken = "content"

\* C13: no term is searched twice, only terms of the extractor's reply are
\* searched, and once scraping has returned with the search credential
\* configured every distinct term of the reply has been searched once.
C13_OneCallPerDistinctTerm ==
    /\ \A m, n \in 1..Len(searched) : searched[m] = searched[n] => m = n
    /\ Range(searched) \subseteq ReplyTerms
    /\ (p_pc = "pool" /\ fut # <<>>) =>
          /\ Len(fut) = Cardinality(ReplyTerms)
          /\ Range(all_individual_terms) = ReplyTerms
    /\ (ScrapingReturned /\ SCRAPINGDOG_API_KEY /\ all_concepts_data # <<>>) =>
          Range(searched) = ReplyTerms

\* C13 witness: a reply that lists 'pressure sensor' under two concepts and
\* two languages; scraping has returned after two calls.
C13_Witness ==
    /\ p_pc = "rank"
    /\ Len(all_concepts_data) = 2
    /\ searched = <<"heated mug", "pressure sensor">>

\* C14: at no moment more than 5 tasks have entered the search gateway
\* call and not left it, sleeping threads included.
C14_AtMostFiveInFlight ==
    Cardinality({i \in 1..Len(fut) : fut[i] \notin {"queued", "finished", "collected"}}) <= 5

\* C14 witness: six tasks, five of them in the gateway call, one of these
\* asleep between two requests, and the sixth waiting for a thread.
C14_Witness ==
    /\ Len(fut) = 6 /\ fut[6] = "queued"
    /\ \A i \in 1..5 : fut[i] \in {"running", "sleeping"}
    /\ \E i \in 1..5 : fut[i] = "sleeping"

\* C15: when scraping has returned, every record of every result list that
\* a worker's call returned is in the returned list under its raw
\* identifier, whatever happened to the other tasks; and scraping returns
\* only from a state where every future has been collected.
C15_FailuresDoNotBlock ==
    /\ [](ScrapingReturned =>
            \A rec \in found :
               \E n \in 1..Len(scraped_patents_list) :
                  scraped_patents_list[n].patent_id = rec.patent_id)
    /\ [][(p_pc = "pool" /\ p_pc' # "pool") =>
            /\ fut # <<>>
            /\ \A i \in 1..Len(fut) : fut[i] = "collected"]_vars

\* C15 witness: one term's call failed, returned nothing or raised, the
\* other term's records are in the list scraping returned.
C15_Witness ==
    /\ p_pc = "rank"
    /\ Cardinality(unproductive) = 1
    /\ found # {} /\ scraped_patents_list # <<>>

\* C16: the call count scraping returns is the number of gateway calls the
\* workers made, which is the number of distinct terms when the search
\* credential is configured, whatever the results of the calls.
C16_CallCountIsTermCount ==
    ScrapingReturned =>
        /\ api_calls_made = Len(searched)
        /\ (SCRAPINGDOG_API_KEY /\ all_concepts_data # <<>>) =>
              api_calls_made = Cardinality(ReplyTerms)

\* C16 witness: two terms, both calls unproductive, a count of two.
C16_Witness ==
    /\ p_pc = "deep_dive"
    /\ Cardinality(unproductive) = 2
    /\ api_calls_made = 2

\* the report of a run that went through stage 4 without a deep dive
ReportWithoutDeepDive ==
    keyword_report_md \o <<Newline>> \o prior_art_analysis_md \o <<Newline>> \o MsgDeepDefault

NoCollaboratorAfterExtractor ==
    /\ searched = <<>> /\ fut = <<>> /\ api_calls_made = 0
    /\ rank_calls = 0 /\ fetched = <<>> /\ dived = <<>>

\* C17: when the extractor's gateway call returned a failure, the run has
\* ended, the report is that failure text, and no search call, no ranker
\* call and no document fetch was made.
C17_ExtractorFailureEndsRun ==
    kw_origin = "gateway" =>
        /\ p_pc = "done"
        /\ report = keyword_report_md
        /\ StartsWithError(report)
        /\ NoCollaboratorAfterExtractor

\* C17 witness: three failed model calls, and the report is the gateway's
\* failure text.
C17_Witness ==
    /\ GEMINI_API_KEY /\ kw_origin = "gateway"
    /\ p_pc = "done" /\ report = GErrRaised

RetrievalEmpty ==
    /\ kw_taken = "content" /\ all_concepts_data # <<>>
    /\ p_pc \in {"deep_dive", "done"}
    /\ scraped_patents_list = <<>>

\* C19: when retrieval yields no record the ranker is not called and the
\* ranking section is the 'No patent results were found' notice; when the
\* ranker's gateway call fails the ranking section is the 'Initial analysis
\* failed' notice with the failure text; in both cases no document is
\* fetched and the finished report is the extractor's text, the notice and
\* the deep-dive-skipped notice.
C19_RetrievalOrRankingFailureDegrades ==
    /\ RetrievalEmpty => rank_calls = 0 /\ prior_art_analysis_md = MsgNoResults
    /\ ia_origin = "gateway" =>
          /\ rank_calls = 1
          /\ prior_art_analysis_md = <<MsgAnalysisFailed>> \o initial_analysis_md
    /\ (RetrievalEmpty \/ ia_origin = "gateway") =>
          /\ top_patents_for_deep_dive = <<>> /\ fetched = <<>> /\ dived = <<>>
          /\ p_pc \in {"deep_dive", "done"}
          /\ p_pc = "done" => report = ReportWithoutDeepDive

\* C19 witness: records were retrieved, the ranker's gateway call failed,
\* and the run finished with the notice in the report.
C19_Witness ==
    /\ p_pc = "done" /\ GEMINI_API_KEY
    /\ scraped_patents_list # <<>> /\ ia_origin = "gateway"
    /\ report = keyword_report_md \o <<Newline, MsgAnalysisFailed>> \o GErrRaised
                   \o <<Newline>> \o MsgDeepDefault

\* C20: call_gemini_for_prior_art, called with an empty record list, returns
\* the 'No patents found or provided' notice, and the model gateway is never
\* entered and the model never invoked during that call.
C20_EmptyListShortCircuits ==
    pa_patents = <<>> =>
        /\ pa_pc \in {"call", "done"}
        /\ g_pc = "idle" /\ g_calls = 0 /\ g_hist = <<>>
        /\ pa_pc = "done" => pa_result = MsgNoPatents

\* C20 witness: the call with an empty list has returned the notice, with
\* the credential configured and no model invocation.
C20_Witness ==
    /\ pa_pc = "done" /\ pa_patents = <<>> /\ GEMINI_API_KEY
    /\ pa_result = MsgNoPatents /\ g_calls = 0

\* the publication number a numbered entry of the ranking names
RankedDocument(line) ==
    CASE line = "**1. US1234A1 - title**" -> <<"US1234A1">>
      [] line = "**2. patent/US5678B2/en - title**" -> <<"US5678B2">>
      [] line = "**3. US0000X9 - title**" -> <<"US0000X9">>

Ranked == p_pc \in {"deep_dive", "done"} /\ ia_taken = "content"

\* C21: after a ranking taken as content, every short-listed record is a
\* value of the record map; a numbered entry whose identifier is a key of the
\* map has its record on the short-list, an entry whose identifier is not a
\* key has none, whatever the other entries are; and the finished run has a
\* report that begins with the extractor's text and the ranking.
C21_UnknownIdDroppedNotFatal ==
    Ranked =>
        /\ \A i \in 1..Len(top_patents_for_deep_dive) :
              \E j \in 1..Len(scraped_patents_dict) :
                  scraped_patents_dict[j].v = top_patents_for_deep_dive[i]
        /\ \A n \in 1..Len(initial_analysis_md) :
              initial_analysis_md[n] \in EntryLines =>
                  LET doc == RankedDocument(initial_analysis_md[n])
                  IN  IF DictHas(scraped_patents_dict, doc)
                      THEN \E i \in 1..Len(top_patents_for_deep_dive) :
                               top_patents_for_deep_dive[i] = DictGet(scraped_patents_dict, doc)
                      ELSE \A i \in 1..Len(top_patents_for_deep_dive) :
                               DocumentOf(top_patents_for_deep_dive[i]) # doc
        /\ p_pc = "done" =>
              /\ report # NoneVal
              /\ SubSeq(report, 1, Len(keyword_report_md) + 1 + Len(initial_analysis_md))
                     = keyword_report_md \o <<Newline>> \o initial_analysis_md

\* C21 witness: the ranking names an identifier no search returned and then
\* a retrieved one; the short-list holds the retrieved record alone and the
\* run has finished.
C21_Witness ==
    /\ p_pc = "done" /\ ia_taken = "content"
    /\ initial_analysis_md = <<"**3. US0000X9 - title**", "**1. US1234A1 - title**">>
    /\ Len(top_patents_for_deep_dive) = 1
    /\ DocumentOf(top_patents_for_deep_dive[1]) = <<"US1234A1">>
    /\ Len(deep_dive_results) = 1
    /\ report # NoneVal

NoPdfAnalysis(patent_id) == <<DeepTitle>> \o patent_id \o <<MsgNoPdf>>
FetchFailedAnalysis(patent_id) == <<DeepTitle>> \o patent_id \o <<MsgFetchFailed>>

\* the analyses so far, read against the short-list, the fetches and the
\* deep-dive calls in order: analysis i belongs to record i
RECURSIVE DeepDiveAligned(_, _, _)
DeepDiveAligned(i, f, d) ==
    IF i > Len(deep_dive_results)
    THEN f = Len(fetched) + 1 /\ d = Len(dived) + 1
    ELSE LET rec == top_patents_for_deep_dive[i]
             analysis == deep_dive_results[i]
         IN  IF ~Truthy(rec.pdf)
             THEN analysis = NoPdfAnalysis(rec.patent_id) /\ DeepDiveAligned(i + 1, f, d)
             ELSE /\ f <= Len(fetched) /\ fetched[f] = rec.patent_id
                  /\ IF analysis = FetchFailedAnalysis(rec.patent_id)
                     THEN DeepDiveAligned(i + 1, f + 1, d)
                     ELSE /\ d <= Len(dived) /\ dived[d].id = rec.patent_id
                          /\ dived[d].origin \in {"gateway", "model"}
                          /\ dived[d].origin = "gateway" => analysis \in {GErrRaised, GErrEmpty}
                          /\ dived[d].origin = "model" => ~StartsWithError(analysis)
                          /\ DeepDiveAligned(i + 1, f + 1, d + 1)

\* C22: the deep dive makes one analysis per short-listed record, in order:
\* for a record without a suffix the 'No PDF link' text, with no fetch and
\* no deep-dive call; for a record whose fetch returned nothing (a timeout,
\* an HTTP error, a connection error, a content type other than PDF) the
\* 'Failed to download' text, with no deep-dive call; for a record whose
\* gateway call failed the gateway's failure text; and whatever happened to
\* one record, the finished run has an analysis for every record.
C22_OneAnalysisPerRecord ==
    p_pc \in {"deep_dive", "done"} =>
        /\ Len(deep_dive_results) <= Len(top_patents_for_deep_dive)
        /\ p_pc = "done" => Len(deep_dive_results) = Len(top_patents_for_deep_dive)
        /\ DeepDiveAligned(1, 1, 1)
        /\ \A outcome \in {"not_pdf", "timeout", "http", "conn"} :
              fetch_patent_pdf(<<"d", ".pdf">>, outcome) = NoneVal

\* C22 witness: four short-listed records; the first has no suffix, the
\* fetch of the second failed, the gateway call of the third failed, and the
\* fourth was analysed.
C22_Witness ==
    /\ p_pc = "done" /\ Len(top_patents_for_deep_dive) = 4
    /\ deep_dive_results[1] = NoPdfAnalysis(<<"US1234A1">>)
    /\ deep_dive_results[2] = FetchFailedAnalysis(<<"US5678B2">>)
    /\ deep_dive_results[3] = GErrRaised
    /\ deep_dive_results[4] = <<"x">>
    /\ Len(fetched) = 3 /\ Len(dived) = 2

Terminal(job_id) == JobGet(job_id) \notin {Processing, NotFound}

Started(job_id) == job_id \in JobIds /\ worker[job_id] # "none"

\* C23: a job whose entry is 'processing' eventually has a terminal text
\* under its id, given that its thread runs to the end; a worker that has
\* finished has left a terminal text, and when generate_keyword_report raised
\* in it the worker still finished and the text begins with '# Error'.
C23_EveryJobGetsTerminalText ==
    /\ \A job_id \in JobIds : (JobGet(job_id) = Processing) ~> Terminal(job_id)
    /\ [](\A job_id \in JobIds :
             /\ Started(job_id) => DictHas(job_results, job_id)
             /\ worker[job_id] = "finished" =>
                   /\ Terminal(job_id)
                   /\ w_raised[job_id] => StartsWithError(JobGet(job_id)))

\* C23 witness: generate_keyword_report raised in the worker of job 1, the
\* worker finished and the entry of job 1 is the error report.
C23_Witness ==
    /\ worker[1] = "finished" /\ w_raised[1]
    /\ JobGet(1) = MsgWorkerError

\* C24: once the entry of a job id holds a terminal report, no step changes
\* what is read under that id.
C24_ResultWrittenOnce ==
    [][\A job_id \in JobIds : Terminal(job_id) => JobGet(job_id)' = JobGet(job_id)]_vars

\* C24 witness: job 1 holds its report, its result page has been served,
\* and job 2 has started and finished since with another report.
C24_Witness ==
    /\ worker[1] = "finished" /\ worker[2] = "finished"
    /\ job_results[1].k = 1 /\ Terminal(1) /\ Terminal(2)
    /\ JobGet(1) # JobGet(2)
    /\ response = [page |-> "result", job_id |-> 1]

ResultPages == {"processing", "not_found", "result"}

\* C25: what is read under a job id changes only in a step of that job (its
\* start or its own worker's write); a step that serves a result page leaves the
\* store as it is; and the page served for an id that was never started is
\* the not-found page, and only for such an id.
C25_WorkersWriteOwnEntryOnly ==
    [][ /\ \A job_id \in JobIds :
              JobGet(job_id)' # JobGet(job_id) => worker'[job_id] # worker[job_id]
        /\ (response' # response /\ response'.page \in ResultPages) =>
              /\ job_results' = job_results
              /\ response'.page = "not_found" <=> ~Started(response'.job_id)
      ]_vars

\* C25 witness: two jobs are under way, one with its report stored and one
\* before its write, and a request for an id that was never started was
\* answered with the not-found page.
C25_Witness ==
    /\ worker[1] = "finally" /\ worker[2] = "finished"
    /\ JobGet(1) = Processing /\ Terminal(2)
    /\ response = [page |-> "not_found", job_id |-> UnknownId]

\* C26: without its credential a gateway makes no external call (no model
\* invocation, no HTTP request, no sleep) and returns its failure value;
\* without the search credential no search task is submitted, scraping
\* returns no record and a call count of 0, and the run ends with the
\* extractor's text, a notice and the deep-dive-skipped notice; without the
\* model credential the run ends with the gateway's failure text.
C26_MissingCredentialFailsAtCallTime ==
    /\ ~GEMINI_API_KEY =>
          /\ g_calls = 0 /\ g_hist = <<>> /\ g_sleeps = <<>>
          /\ g_pc = "done" => g_result = GErrNoKey /\ g_origin = "gateway"
          /\ (p_pc = "done" /\ description_text # <<>>) => report = GErrNoKey
    /\ ~SCRAPINGDOG_API_KEY =>
          /\ s_requests = 0 /\ s_hist = <<>> /\ s_sleeps = <<>>
          /\ s_pc = "done" => s_result = ErrorDict(SErrNoKey, 0) /\ ~s_raised
          /\ fut = <<>> /\ searched = <<>>
          /\ scraped_patents_list = <<>> /\ api_calls_made = 0
          /\ (p_pc = "done" /\ kw_taken = "content") =>
                /\ prior_art_analysis_md \in {MsgNoResults, MsgNoTerms}
                /\ report = ReportWithoutDeepDive

\* C26 witness: the search credential is not set; the gateway has returned
\* its error dict, and a run whose extractor gave terms has ended with the
\* 'No patent results were found' notice in its report.
C26_Witness ==
    /\ GEMINI_API_KEY /\ ~SCRAPINGDOG_API_KEY
    /\ s_pc = "done" /\ s_result = ErrorDict(SErrNoKey, 0)
    /\ p_pc = "done" /\ all_concepts_data # <<>>
    /\ report = keyword_report_md \o <<Newline>> \o MsgNoResults \o <<Newline>> \o MsgDeepDefault

\* the second section of a report: the ranker's text, or the notice of the
\* stage that ended the analysis
RankingSection ==
    CASE ia_taken = "content" -> initial_analysis_md
      [] ia_taken = "failure" ->
            <<MsgAnalysisFailed>> \o (IF initial_analysis_md = <<>> THEN MsgUnknownError
                                      ELSE initial_analysis_md)
      [] all_concepts_data = <<>> -> MsgNoTerms
      [] OTHER -> MsgNoResults

\* the third section: the header and the analyses in the order of the
\* short-list, or the notice
DeepDiveSection ==
    IF top_patents_for_deep_dive = <<>> THEN MsgDeepDefault
    ELSE <<DeepHeader>> \o JoinResults(deep_dive_results)

RECURSIVE ListedTerms(_)
ListedTerms(spans) ==
    IF spans = <<>> THEN {}
    ELSE Range(SplitTerms(Head(spans))) \cup ListedTerms(Tail(spans))

\* the description of the concept block that line n of the text is in
RECURSIVE ConceptOfLine(_, _)
ConceptOfLine(md, n) ==
    IF n = 0 THEN ""
    ELSE IF md[n] \in ConceptHeaders THEN ConceptDescription(md[n])
    ELSE ConceptOfLine(md, n - 1)

\* C28 (as claimed): for every language line of a concept block of the
\* extractor's text, the term list stored for that concept and language
\* holds every term the line lists.
C28_EveryListedTermStored ==
    kw_taken = "content" =>
        \A n \in 1..Len(keyword_report_md) :
            keyword_report_md[n] \in LangLines =>
                LET line == keyword_report_md[n]
                    concept == ConceptOfLine(keyword_report_md, n)
                IN  /\ DictHas(all_concepts_data, concept)
                    /\ DictHas(DictGet(all_concepts_data, concept), LangOf(line))
                    /\ ListedTerms(BacktickSpans(line))
                          \subseteq Range(DictGet(DictGet(all_concepts_data, concept), LangOf(line)))

\* C29: in a call with the credential set, an attempt that ends with a
\* response without text and an attempt that raises are treated alike: each
\* one before the third is followed by the same sleep and by another
\* attempt, each counts as one attempt, and the third failed attempt of
\* either kind ends the call with a failure value; the model is never
\* invoked more than 3 times, whatever the order of the two kinds.
C29_EmptyAndRaisedShareBudget ==
    GEMINI_API_KEY =>
        /\ g_calls <= MAX_RETRIES /\ g_calls = Len(g_hist)
        /\ g_pc = "loop" => g_attempt = Len(g_hist) /\ g_attempt < MAX_RETRIES
        /\ \A i \in 1..Len(g_hist) :
              GeminiFailed(g_hist[i]) =>
                  IF i < MAX_RETRIES
                  THEN /\ Len(g_sleeps) >= i /\ g_sleeps[i] = RETRY_DELAY * i
                       /\ (g_pc = "done" => Len(g_hist) > i)
                  ELSE /\ g_pc = "done" /\ g_origin = "gateway"
                       /\ StartsWithError(g_result)
                       /\ g_result = (IF g_hist[i].kind = "raise" THEN GErrRaised ELSE GErrEmpty)

\* C29 witness: an empty response, a raised fault, an empty response: three
\* invocations, and the call returned the failure value.
C29_Witness ==
    /\ GEMINI_API_KEY /\ g_pc = "done" /\ g_calls = 3
    /\ g_hist = <<[kind |-> "resp", text |-> <<>>], [kind |-> "raise", text |-> <<>>],
                  [kind |-> "resp", text |-> <<>>]>>
    /\ g_result = GErrEmpty

\* the sleeps of one gateway call against its attempts: sleep k follows
\* failed attempt k and lasts RETRY_DELAY * k, there is one sleep between two
\* consecutive attempts, and none after the attempt that ended the call
DelaysLinear(sleeps, hist, returned) ==
    /\ \A k \in 1..Len(sleeps) : sleeps[k] = RETRY_DELAY * k
    /\ sleeps \in {<<>>, <<5>>, <<5, 10>>}
    /\ Len(sleeps) = IF returned /\ hist # <<>> THEN Len(hist) - 1 ELSE Len(hist)

\* C30: in call_gemini_with_retry and in call_scrapingdog_api the sleep after
\* the k-th failed attempt (k = 1, 2) lasts base delay x k, 5 s and then
\* 10 s; exactly one sleep lies between two consecutive attempts; no sleep
\* follows the third attempt nor an attempt that ended the call.
C30_LinearDelayBetweenAttempts ==
    /\ DelaysLinear(g_sleeps, g_hist, g_pc = "done")
    /\ DelaysLinear(s_sleeps, s_hist, s_pc = "done")

\* C30 witness: in both gateways three attempts failed; each call slept 5 s
\* and 10 s and returned after the third attempt.
C30_Witness ==
    /\ g_pc = "done" /\ Len(g_hist) = 3 /\ g_sleeps = <<5, 10>> /\ g_origin = "gateway"
    /\ s_pc = "done" /\ Len(s_hist) = 3 /\ s_sleeps = <<5, 10>> /\ s_result.error # ""

----------------------------------------------------------------------------
(* Order of the stages of one run *)

\* a worker calls the search gateway in this step
SearchCallStarts == Len(searched') > Len(searched)

\* call_gemini_for_prior_art is called in this step
RankerCallStarts == rank_calls' > rank_calls

\* a document is requested from the document store in this step
FetchStarts == Len(fetched') > Len(fetched)

\* C31: within one run the stages call their collaborators in order. A
\* search gateway call starts only when the extractor's call has returned its
\* text and before the ranker is called; the ranker is called only when no
\* search task is queued or in flight and every task that was started has
\* been collected, and it is called at most once; a document is fetched only
\* when the ranker's call has returned.
C31_StagesCallInOrder ==
    [][ /\ SearchCallStarts =>
              /\ kw_taken = "content" /\ keyword_report_md # NoneVal
              /\ rank_calls = 0 /\ fetched = <<>>
        /\ RankerCallStarts =>
              /\ rank_calls = 0
              /\ \A i \in 1..Len(fut) : fut[i] = "collected"
              /\ Len(searched) = api_calls_made
              /\ fetched = <<>>
        /\ FetchStarts =>
              /\ rank_calls = 1
              /\ ia_origin # "none" /\ initial_analysis_md # NoneVal ]_vars

\* a run that searched, ranked once and fetched a document has ended
C31_Witness ==
    /\ p_pc = "done"
    /\ Len(searched) >= 2 /\ rank_calls = 1 /\ fetched # <<>>

\* a deep-dive call of the model gateway is made in this step
DeepDiveCallStarts == Len(dived') > Len(dived)

\* the identifiers of the ranking text, normalized, that the record map
\* holds, in the order of the text
RankedAndRetrieved ==
    SelectSeq(NormalizeAll(ParsedIdsRaw(initial_analysis_md)),
              LAMBDA pid : DictHas(scraped_patents_dict, pid))

\* C32: outside the retrieval stage no search task is in flight, and the
\* deep dive handles one record per step: a step fetches at most one document
\* and makes at most one deep-dive call, both for the record that follows the
\* records already analysed, whose analysis is complete at the end of the
\* step; that record is the one the ranking text names at that position, and
\* no search or ranker call starts in such a step.
C32_DeepDiveOneAtATimeInRankingOrder ==
    [][ /\ p_pc # "pool" => InFlight = {}
        /\ Len(fetched') <= Len(fetched) + 1
        /\ Len(dived') <= Len(dived) + 1
        /\ (FetchStarts \/ DeepDiveCallStarts) =>
              LET n == Len(deep_dive_results) + 1
              IN  /\ n <= Len(top_patents_for_deep_dive)
                  /\ Len(deep_dive_results') = n
                  /\ FetchStarts =>
                        fetched'[Len(fetched')] = top_patents_for_deep_dive[n].patent_id
                  /\ DeepDiveCallStarts =>
                        /\ FetchStarts
                        /\ dived'[Len(dived')].id = top_patents_for_deep_dive[n].patent_id
                  /\ n <= Len(RankedAndRetrieved)
                  /\ normalize_patent_id(top_patents_for_deep_dive[n].patent_id)
                        = RankedAndRetrieved[n]
                  /\ ~SearchCallStarts /\ ~RankerCallStarts ]_vars

\* two different documents were fetched and analysed, the one the ranking
\* text names first before the other
C32_Witness ==
    /\ p_pc = "done"
    /\ Len(fetched) = 2 /\ Len(dived) = 2
    /\ fetched[1] # fetched[2]
    /\ normalize_patent_id(fetched[1]) = RankedAndRetrieved[1]
    /\ normalize_patent_id(fetched[2]) = RankedAndRetrieved[2]

----------------------------------------------------------------------------
(* The merge of the search results *)

\* the raw identifiers of a sequence, and of a set, of records
IdsOfSeq(records) == {records[k].patent_id : k \in 1..Len(records)}
IdsOfSet(records) == {r.patent_id : r \in records}

\* a pool thread moves in this step: a task is taken, a request is made,
\* a sleep ends
WorkerStep ==
    /\ Len(fut') = Len(fut)
    /\ \E i \in 1..Len(fut) : fut'[i] # fut[i] /\ fut'[i] # "collected"

\* the collecting thread handles exactly the future i in this step
CollectStep(i) ==
    /\ Len(fut') = Len(fut)
    /\ fut[i] = "finished" /\ fut'[i] = "collected"
    /\ \A j \in 1..Len(fut) : j # i => fut'[j] = fut[j]

\* C33: the merge is safe under concurrency. A step of a worker thread leaves
\* the result list, the seen-identifier set and the call counter as they are;
\* while the pool runs they change only in a step in which the collecting
\* thread handles one completed future, and that step keeps what the list
\* held, counts one call and leaves every identifier of the future's
\* result in the list. So under every interleaving the list never holds an
\* identifier twice, and the list scraping returns holds every identifier the
\* workers' calls returned.
C33_MergeIsSafeUnderConcurrency ==
    [][ /\ WorkerStep => UNCHANGED <<all_patents, seen_patent_ids, total_api_calls>>
        /\ (p_pc = "pool" /\ p_pc' = "pool"
            /\ <<all_patents, seen_patent_ids, total_api_calls>>'
                   # <<all_patents, seen_patent_ids, total_api_calls>>) =>
              \E i \in 1..Len(fut) :
                 /\ CollectStep(i)
                 /\ total_api_calls' = total_api_calls + 1
                 /\ Len(all_patents') >= Len(all_patents)
                 /\ SubSeq(all_patents', 1, Len(all_patents)) = all_patents
                 /\ seen_patent_ids \subseteq seen_patent_ids'
                 /\ (~fut_result[i].raised /\ fut_result[i].value.error = "") =>
                       IdsOfSeq(fut_result[i].value.organic_results) \subseteq IdsOfSeq(all_patents')
        /\ Cardinality(IdsOfSeq(all_patents)) = Len(all_patents)
        /\ IdsOfSeq(all_patents) = seen_patent_ids
        /\ (p_pc = "pool" /\ p_pc' # "pool") =>
              /\ IdsOfSeq(scraped_patents_list') = IdsOfSet(found)
              /\ Cardinality(IdsOfSet(found)) = Len(scraped_patents_list')
              /\ api_calls_made' = Len(searched) ]_vars

\* two workers' calls returned the same identifier and another one, both
\* results were merged, and the returned list holds each identifier once
C33_Witness ==
    /\ p_pc = "rank"
    /\ Len(searched) = 2 /\ Cardinality(found) >= 3
    /\ Len(scraped_patents_list) = 3
    /\ IdsOfSeq(scraped_patents_list) = IdsOfSet(found)

----------------------------------------------------------------------------
(* parse_all_concept_data *)

\* the cross-lingual section of a text, by positions: from the first section
\* heading to the line before the next language-specific heading
SectionFirst(md) == IntMin({n \in 1..Len(md) : md[n] = SectionMark})
SectionLast(md) ==
    LET after == {n \in SectionFirst(md)..Len(md) : md[n] = LangSpecificMark}
    IN  IF after = {} THEN Len(md) ELSE IntMin(after) - 1

HasSection(md) == IsStr(md) /\ \E n \in 1..Len(md) : md[n] = SectionMark

\* line n stands in the block of the concept header at line h
InBlockOf(md, h, n) ==
    /\ SectionFirst(md) <= h /\ h < n /\ n <= SectionLast(md)
    /\ md[h] \in ConceptHeaders
    /\ \A k \in (h + 1)..n : md[k] \notin ConceptHeaders

\* a language line whose first backtick span holds a term that is not blank
ListsATerm(line) ==
    /\ line \in LangLines
    /\ \E p \in Range(BacktickSpans(line)[1]) : \E k \in 1..Len(p) : p[k] \notin WS

\* the terms the model's texts can list: no empty and no blank one
IsTerm(t) == t \notin WS /\ t # "" /\ t \in Range(TermOrder)

\* C34: every concept of the returned set maps at least one language to a
\* list of terms that is not empty, and every list it holds is a non-empty
\* list of non-empty trimmed terms; a concept whose header is followed by no
\* language line that lists a term is not in the set.
C34_ConceptsHaveTerms ==
    c_pc = "done" =>
        /\ \A i \in 1..Len(c_concepts) :
              /\ c_concepts[i].v # <<>>
              /\ \A j \in 1..Len(c_concepts[i].v) :
                    /\ c_concepts[i].v[j].v # <<>>
                    /\ \A n \in 1..Len(c_concepts[i].v[j].v) : IsTerm(c_concepts[i].v[j].v[n])
        /\ \A d \in DictKeys(c_concepts) :
              \E h, n \in 1..Len(c_md) :
                  /\ InBlockOf(c_md, h, n)
                  /\ ConceptDescription(c_md[h]) = d
                  /\ ListsATerm(c_md[n])

\* a text with two headers, the first followed by no language line, the
\* second by a line with a term: the set holds the second concept alone
C34_Witness ==
    /\ c_pc = "done"
    /\ c_md = <<SectionMark, "**Concept 1: heating**", "**Concept 2: sensing**",
                "* German: pressure sensor">>
    /\ c_concepts = <<[k |-> "sensing",
                       v |-> <<[k |-> "German", v |-> <<"pressure sensor">>]>>]>>

\* C35: parse_all_concept_data never raises: for a text, and for a value
\* that makes the parsing code fail, it returns a concept mapping, which is
\* empty when the text holds no cross-lingual section.
C35_ParserNeverRaises ==
    c_pc = "done" =>
        /\ ~c_raised
        /\ \A i \in 1..Len(c_concepts) : c_concepts[i].k \in {"heating", "sensing"}
        /\ ~HasSection(c_md) => c_concepts = <<>>

\* the parser was handed a value that is no string and returned the empty
\* mapping
C35_Witness ==
    c_pc = "done" /\ c_md = NoneVal /\ c_concepts = <<>> /\ ~c_raised

\* a record whose identifier is a non-empty string
WellFormed(rec) == IsStr(rec.patent_id) /\ Truthy(rec.patent_id)

\* C36: a record whose identifier is absent, empty or not a string is
\* skipped and nothing else is affected: when scraping has returned, the
\* list holds every well-formed record of the results the tasks returned,
\* those listed after a malformed one included.
C36_MalformedIdSkippedOnly ==
    p_pc \in {"rank", "deep_dive"} =>
        \A rec \in found :
            WellFormed(rec) => rec.patent_id \in IdsOfSeq(scraped_patents_list)

\* C37: a reply that reproduces the output format the keyword prompt
\* prescribes (its section heading, its concept header, its bullet line) is
\* parsed into a concept set that is not empty.
C37_PromptFormatParses ==
    (c_pc = "done" /\ c_md = PromptReply) => c_concepts # <<>>

----------------------------------------------------------------------------
(* The stored report and the status values *)

\* the result route answers a request for job_id in this step
Answers(job_id) == response' # response /\ response'.job_id = job_id

\* C38: the text a job's worker stores is neither of the status values
\* 'processing' and 'not_found' and is not empty, whatever texts the model
\* returned in the run, so the result route answers a request for a
\* finished job with the result page.
C38_StoredTextIsNoStatusToken ==
    [][ /\ \A job_id \in JobIds :
              worker[job_id] \in {"finally", "finished"} =>
                  /\ w_report[job_id] \notin {Processing, NotFound, <<>>}
                  /\ worker[job_id] = "finished" =>
                        /\ DictHas(job_results, job_id)
                        /\ DictGet(job_results, job_id) = w_report[job_id]
        /\ \A job_id \in JobIds :
              (worker[job_id] = "finished" /\ Answers(job_id)) =>
                  response'.page = "result" ]_vars

\* the extractor's text was the word 'processing'; the job has finished
\* and the result route has answered with the result page
C38_Witness ==
    /\ keyword_report_md = Processing /\ kw_origin = "model"
    /\ worker[FirstJob] = "finished" /\ ~w_raised[FirstJob]
    /\ Len(DictGet(job_results, FirstJob)) > 1
    /\ response = [page |-> "result", job_id |-> FirstJob]

----------------------------------------------------------------------------
(* Results of the model gateway and the short-list *)

\* C39: every result of call_gemini_with_retry that is no failure text of
\* the gateway is a trimmed string that is not empty: a response whose text
\* is empty or blank is never returned as a successful empty string.
C39_SuccessIsNonEmptyTrimmed ==
    (g_module = "keyword_generator" /\ g_pc = "done" /\ g_origin = "model") =>
        /\ g_result # <<>>
        /\ g_result = StripChars(g_result, WS)

\* the same record stands at two positions of a sequence
HasDuplicate(records) ==
    \E i, j \in 1..Len(records) : i # j /\ records[i] = records[j]

\* C40: the short-list holds no record twice, also when the ranking text
\* names an identifier in two numbered entries, so that no retrieved record
\* is analysed twice in a run.
C40_ShortlistHoldsNoRecordTwice ==
    /\ ~HasDuplicate(top_patents_for_deep_dive)
    /\ \A i, j \in 1..Len(dived) : i # j => dived[i].id # dived[j].id

====
